---------------------------- MODULE Spec2Model ----------------------------
(***************************************************************************)
(* A model of the Ux data tools: the binary packer (struct.ts), the Dirac  *)
(* delta, the distributional value with its normalisation operations, and  *)
(* the Ux codec (DistributionalValue.parse / export).                      *)
(*                                                                         *)
(* JavaScript numbers are modelled as tagged records:                      *)
(*   [k |-> "fin", v |-> n]   the finite double n (an integer here)        *)
(*   [k |-> "nan"], [k |-> "inf", v |-> +1/-1]    NaN, +Infinity, -Infinity *)
(*   [k |-> "big"]            the finite double 1e21 (particle values only)*)
(*   [k |-> "null"], [k |-> "undef"]              null and undefined       *)
(* Arithmetic on doubles rounds to nearest, ties to even.  The model keeps *)
(* that rounding on a narrow format: MantBits significant bits, spacing at *)
(* least 1.  Masses are held in units of 1/FIXED_POINT_ONE, so that        *)
(* raw_mass / FIXED_POINT_ONE is the rounding of raw_mass to the format.   *)
(* Negative zero is not distinguished from zero.                           *)
(***************************************************************************)
EXTENDS Integers, Sequences, FiniteSets, TLC

(***************************************************************************)
(* Bounds of the model.                                                    *)
(***************************************************************************)
MantBits == 4

MaxDeltas == 3

MaxSteps == 3

(***************************************************************************)
(* JavaScript values.                                                      *)
(***************************************************************************)
Fin(n) == [k |-> "fin", v |-> n]

NaN == [k |-> "nan", v |-> 0]

PosInf == [k |-> "inf", v |-> 1]

NegInf == [k |-> "inf", v |-> -1]

Big == [k |-> "big", v |-> 1]

Null == [k |-> "null", v |-> 0]

Undefined == [k |-> "undef", v |-> 0]

IsFin(x) == x.k = "fin"

IsNaNv(x) == x.k = "nan"

Abs(n) == IF n < 0 THEN -n ELSE n

Sign(n) == IF n < 0 THEN -1 ELSE 1

Pow2(e) == 2 ^ e

\* Number of bits of the non-negative integer n.
BitLen(n) == CHOOSE b \in 0..30 : n < Pow2(b) /\ (b = 0 \/ n >= Pow2(b - 1))

\* Spacing of the format around a magnitude whose integer part is n.
Ulp(n) == IF BitLen(n) > MantBits THEN Pow2(BitLen(n) - MantBits) ELSE 1

\* a / b (a >= 0, b > 0) rounded to nearest, ties to even.
RoundDiv(a, b) ==
    LET s == Ulp(a \div b)
        f == a \div (s * b)
        r == a % (s * b)
        up == (2 * r > s * b) \/ (2 * r = s * b /\ f % 2 = 1)
    IN  IF up THEN (f + 1) * s ELSE f * s

\* The double nearest to the integer n.
fl(n) == Sign(n) * RoundDiv(Abs(n), 1)

FNeg(x) == IF x.k \in {"fin", "inf"} THEN [k |-> x.k, v |-> -x.v] ELSE x

FAdd(x, y) ==
    IF x.k = "fin" /\ y.k = "fin" THEN Fin(fl(x.v + y.v))
    ELSE IF x.k = "inf" /\ y.k = "inf" THEN (IF x.v = y.v THEN x ELSE NaN)
    ELSE IF x.k = "inf" /\ y.k = "fin" THEN x
    ELSE IF x.k = "fin" /\ y.k = "inf" THEN y
    ELSE NaN

FSub(x, y) == FAdd(x, FNeg(y))

FMul(x, y) ==
    IF x.k = "fin" /\ y.k = "fin" THEN Fin(fl(x.v * y.v))
    ELSE IF x.k = "inf" /\ y.k = "inf" THEN [k |-> "inf", v |-> x.v * y.v]
    ELSE IF x.k = "inf" /\ y.k = "fin"
         THEN (IF y.v = 0 THEN NaN ELSE [k |-> "inf", v |-> x.v * Sign(y.v)])
    ELSE IF x.k = "fin" /\ y.k = "inf"
         THEN (IF x.v = 0 THEN NaN ELSE [k |-> "inf", v |-> y.v * Sign(x.v)])
    ELSE NaN

FDiv(x, y) ==
    IF x.k = "fin" /\ y.k = "fin"
    THEN (IF y.v = 0
          THEN (IF x.v = 0 THEN NaN ELSE [k |-> "inf", v |-> Sign(x.v)])
          ELSE Fin(Sign(x.v) * Sign(y.v) * RoundDiv(Abs(x.v), Abs(y.v))))
    ELSE IF x.k = "inf" /\ y.k = "fin" THEN [k |-> "inf", v |-> x.v * Sign(y.v)]
    ELSE IF x.k = "fin" /\ y.k = "inf" THEN Fin(0)
    ELSE NaN

FAbs(x) == IF x.k \in {"fin", "inf"} THEN [k |-> x.k, v |-> Abs(x.v)] ELSE x

\* x < y on doubles: false when either side is NaN.
FLt(x, y) ==
    IF x.k = "fin" /\ y.k = "fin" THEN x.v < y.v
    ELSE IF x.k = "inf" /\ y.k = "fin" THEN x.v < 0
    ELSE IF x.k = "fin" /\ y.k = "inf" THEN y.v > 0
    ELSE IF x.k = "inf" /\ y.k = "inf" THEN x.v < y.v
    ELSE FALSE

FGt(x, y) == FLt(y, x)

FEq(x, y) == x.k \in {"fin", "inf"} /\ x = y

FLe(x, y) == FLt(x, y) \/ FEq(x, y)

(***************************************************************************)
(* Byte layouts written and read by DataView (big-endian by default).      *)
(***************************************************************************)
Oth == [k |-> "oth", v |-> 0]

RECURSIVE Zeros(_)
Zeros(n) == IF n <= 0 THEN <<>> ELSE <<0>> \o Zeros(n - 1)

RECURSIVE Ones(_)
Ones(n) == IF n <= 0 THEN <<>> ELSE <<1>> \o Ones(n - 1)

\* The w low bits of n, most significant first (w <= 30).
BitsOf(n, w) == [i \in 1..w |-> (n \div Pow2(w - i)) % 2]

RECURSIVE BitsValue(_)
BitsValue(bits) ==
    IF Len(bits) = 0 THEN 0
    ELSE 2 * BitsValue(SubSeq(bits, 1, Len(bits) - 1)) + bits[Len(bits)]

BytesOfBits(bits) ==
    [j \in 1..(Len(bits) \div 8) |-> BitsValue(SubSeq(bits, 8 * j - 7, 8 * j))]

RECURSIVE BitsOfBytes(_)
BitsOfBytes(bytes) ==
    IF Len(bytes) = 0 THEN <<>>
    ELSE BitsOf(bytes[1], 8) \o BitsOfBytes(Tail(bytes))

\* The double 1e21, 0x444B1AE4D6E2EF50.
BigBytes == <<68, 75, 26, 228, 214, 226, 239, 80>>

\* IEEE-754 bits of x: 1 sign bit, ebits exponent bits, fbits fraction bits.
FloatBits(x, ebits, fbits, bias) ==
    IF x.k = "fin" /\ x.v # 0
    THEN LET e == BitLen(Abs(x.v)) - 1
         IN  <<IF x.v < 0 THEN 1 ELSE 0>> \o BitsOf(e + bias, ebits)
             \o BitsOf(Abs(x.v) - Pow2(e), e) \o Zeros(fbits - e)
    ELSE IF x.k = "inf"
    THEN <<IF x.v < 0 THEN 1 ELSE 0>> \o Ones(ebits) \o Zeros(fbits)
    ELSE IF x.k = "nan"
    THEN <<0>> \o Ones(ebits) \o <<1>> \o Zeros(fbits - 1)
    ELSE Zeros(1 + ebits + fbits)

FloatOfBits(bits, ebits, fbits, bias) ==
    LET sgn == IF bits[1] = 1 THEN -1 ELSE 1
        E == BitsValue(SubSeq(bits, 2, 1 + ebits))
        frac == SubSeq(bits, 2 + ebits, 1 + ebits + fbits)
        e == E - bias
    IN  IF E = Pow2(ebits) - 1
        THEN (IF frac = Zeros(fbits) THEN [k |-> "inf", v |-> sgn] ELSE NaN)
        ELSE IF E = 0 THEN (IF frac = Zeros(fbits) THEN Fin(0) ELSE Oth)
        ELSE IF e < 0 \/ e > 29 \/ e > fbits THEN Oth
        ELSE IF SubSeq(frac, e + 1, fbits) # Zeros(fbits - e) THEN Oth
        ELSE Fin(sgn * (Pow2(e) + BitsValue(SubSeq(frac, 1, e))))

\* ToNumber of a value handed to an integer setter: null, undefined, NaN and
\* the infinities are written as 0.
ToInt(x) == IF x.k = "fin" THEN x.v ELSE 0

\* An unsigned integer of size bytes, most significant byte first.  The model's
\* integers stay below 2^31, so bytes above the fourth from the right are 0.
UIntBytes(n, size) ==
    [i \in 1..size |-> IF size - i >= 4 THEN 0 ELSE (n \div (256 ^ (size - i))) % 256]

RECURSIVE UIntOfBytes(_)
UIntOfBytes(bytes) ==
    IF Len(bytes) = 0 THEN 0
    ELSE 256 * UIntOfBytes(SubSeq(bytes, 1, Len(bytes) - 1)) + bytes[Len(bytes)]

RECURSIVE Reverse(_)
Reverse(s) == IF Len(s) = 0 THEN <<>> ELSE Reverse(Tail(s)) \o <<Head(s)>>

\* dv[setType](0, num) followed by Array.from(new Uint8Array(dv.buffer)).
SetBytes(type, x) ==
    IF type = "d"
    THEN (IF x.k = "big" THEN BigBytes
          ELSE BytesOfBits(FloatBits(IF x.k = "undef" THEN NaN ELSE x, 11, 52, 1023)))
    ELSE IF type = "f"
    THEN BytesOfBits(FloatBits(IF x.k = "undef" THEN NaN ELSE x, 8, 23, 127))
    ELSE IF type \in {"q", "Q"} THEN UIntBytes(ToInt(x), 8)
    ELSE IF type \in {"i", "I", "l", "L"} THEN UIntBytes(ToInt(x), 4)
    ELSE UIntBytes(ToInt(x) % 256, 1)

\* dv[getType](0) on the bytes of one value.  Oth stands for a number outside
\* the model: a double that is no small integer, an integer of 2^24 or more.
GetValue(type, bytes) ==
    IF type = "d"
    THEN (IF bytes = BigBytes THEN Big ELSE FloatOfBits(BitsOfBytes(bytes), 11, 52, 1023))
    ELSE IF type = "f" THEN FloatOfBits(BitsOfBytes(bytes), 8, 23, 127)
    ELSE IF \E i \in 1..(Len(bytes) - 3) : bytes[i] # 0 THEN Oth
    ELSE Fin(UIntOfBytes(bytes))

(***************************************************************************)
(* struct.ts: pack and unpack.  A format string is held as the list of     *)
(* groups that format.matchAll(pattern) yields for it.                     *)
(***************************************************************************)
Group(endian, count, type) == [endian |-> endian, count |-> count, type |-> type]

\* [...format.matchAll(pattern)] for the format strings in use.
FormatGroups(format) ==
    CASE format = "" -> <<>>
      [] format = ">B" -> <<Group(">", 1, "B")>>
      [] format = ">Q" -> <<Group(">", 1, "Q")>>
      [] format = ">d" -> <<Group(">", 1, "d")>>
      [] format = ">I" -> <<Group(">", 1, "I")>>
      [] format = ">f" -> <<Group(">", 1, "f")>>
      [] format = "<B" -> <<Group("<", 1, "B")>>
      [] format = "<Q" -> <<Group("<", 1, "Q")>>
      [] format = "<d" -> <<Group("<", 1, "d")>>
      [] format = "<I" -> <<Group("<", 1, "I")>>
      [] format = "<f" -> <<Group("<", 1, "f")>>

isBigEndianDict(char) == char \in {"@", "=", ">", "!"}

checkIsBigEndian(char) == char = "" \/ isBigEndianDict(char)

bufferTypeSizeDict(type) ==
    CASE type \in {"c", "b", "B", "h", "H"} -> 1
      [] type \in {"i", "I", "l", "L", "f"} -> 4
      [] type \in {"q", "Q", "d"} -> 8

\* The groups with their counts expanded: one item per value.
RECURSIVE ExpandGroups(_)
ExpandGroups(groups) ==
    IF Len(groups) = 0 THEN <<>>
    ELSE LET g == Head(groups)
         IN  [i \in 1..g.count |-> g] \o ExpandGroups(Tail(groups))

RECURSIVE packItems(_, _, _)
packItems(items, arr, arrIndex) ==
    IF Len(items) = 0 THEN <<>>
    ELSE LET g == Head(items)
             raw == IF arrIndex <= Len(arr) THEN arr[arrIndex] ELSE Undefined
             num == IF raw.k = "null" THEN Fin(0) ELSE raw
             bytes == SetBytes(g.type, num)
         IN  (IF checkIsBigEndian(g.endian) THEN bytes ELSE Reverse(bytes))
             \o packItems(Tail(items), arr, arrIndex + 1)

\* pack on the groups of its format: null with a warning when the format has
\* no group.
packGroups(groups, arr) ==
    IF Len(groups) = 0
    THEN [isnull |-> TRUE, val |-> <<>>, warns |-> <<"Format unreadable.">>]
    ELSE [isnull |-> FALSE, val |-> packItems(ExpandGroups(groups), arr, 1),
          warns |-> <<>>]

pack(format, arr) == packGroups(FormatGroups(format), arr)

\* bufferIndex !== buffer.length
bytesRemainNever(bufferIndex, buffer) == FALSE

bytesRemain(bufferIndex, buffer) == bufferIndex # Len(buffer)

RECURSIVE unpackItems(_, _, _)
unpackItems(items, buffer, bufferIndex) ==
    IF Len(items) = 0
    THEN (IF bytesRemain(bufferIndex, buffer)
          THEN [isnull |-> TRUE, val |-> <<>>,
                warns |-> <<"Format string does not match the given buffer.">>]
          ELSE [isnull |-> FALSE, val |-> <<>>, warns |-> <<>>])
    ELSE LET g == Head(items)
             value_size == bufferTypeSizeDict(g.type)
         IN  IF bufferIndex + value_size > Len(buffer)
             THEN [isnull |-> TRUE, val |-> <<>>,
                   warns |-> <<"Format string does not match the given buffer.">>]
             ELSE LET value_buffer_raw ==
                          SubSeq(buffer, bufferIndex + 1, bufferIndex + value_size)
                      ordered == IF checkIsBigEndian(g.endian) THEN value_buffer_raw
                                 ELSE Reverse(value_buffer_raw)
                      rest == unpackItems(Tail(items), buffer, bufferIndex + value_size)
                  IN  IF rest.isnull THEN rest
                      ELSE [isnull |-> FALSE,
                            val |-> <<GetValue(g.type, ordered)>> \o rest.val,
                            warns |-> <<>>]

\* unpack(format, buffer): null with a warning when the format has no group,
\* when the buffer is too short, or when bytes are left over.
unpackGroups(groups, buffer) ==
    IF Len(groups) = 0
    THEN [isnull |-> TRUE, val |-> <<>>, warns |-> <<"Format unreadable.">>]
    ELSE unpackItems(ExpandGroups(groups), buffer, 0)

unpack(format, buffer) == unpackGroups(FormatGroups(format), buffer)

(***************************************************************************)
(* Hexadecimal text.  A string is a sequence of one-character strings.     *)
(***************************************************************************)
HexUpper == <<"0", "1", "2", "3", "4", "5", "6", "7", "8", "9",
              "A", "B", "C", "D", "E", "F">>

HexLower == <<"0", "1", "2", "3", "4", "5", "6", "7", "8", "9",
              "a", "b", "c", "d", "e", "f">>

IsHexChar(c) == \E i \in 1..16 : HexUpper[i] = c \/ HexLower[i] = c

\* parseInt(c, 16) of one hexadecimal character.
HexVal(c) == (CHOOSE i \in 1..16 : HexUpper[i] = c \/ HexLower[i] = c) - 1

\* num.toString(16).toUpperCase().padStart(2, '0')
ByteToHex(num) == <<HexUpper[(num \div 16) + 1], HexUpper[(num % 16) + 1]>>

RECURSIVE bytes_tohex(_)
bytes_tohex(arr) ==
    IF Len(arr) = 0 THEN <<>> ELSE ByteToHex(Head(arr)) \o bytes_tohex(Tail(arr))

RECURSIVE HexPairs(_)
HexPairs(str) ==
    IF Len(str) < 2 THEN <<>>
    ELSE <<16 * HexVal(str[1]) + HexVal(str[2])>> \o HexPairs(SubSeq(str, 3, Len(str)))

bytes_fromhex(str) ==
    IF Len(str) % 2 # 0
    THEN [val |-> <<>>,
          warns |-> <<"Hex string length not multiple of 2, i.e. not byte addressable.">>]
    ELSE [val |-> HexPairs(str), warns |-> <<>>]

(***************************************************************************)
(* Decimal text of numbers: Number.prototype.toString, parseFloat, and the *)
(* regular expression of parse.                                            *)
(***************************************************************************)
DigitChars == <<"0", "1", "2", "3", "4", "5", "6", "7", "8", "9">>

IsDigit(c) == \E i \in 1..10 : DigitChars[i] = c

DigitVal(c) == (CHOOSE i \in 1..10 : DigitChars[i] = c) - 1

RECURSIVE DigitsValue(_)
DigitsValue(ds) ==
    IF Len(ds) = 0 THEN 0
    ELSE 10 * DigitsValue(SubSeq(ds, 1, Len(ds) - 1)) + DigitVal(ds[Len(ds)])

RECURSIVE NatToDigits(_)
NatToDigits(n) ==
    IF n < 10 THEN <<DigitChars[n + 1]>>
    ELSE NatToDigits(n \div 10) \o <<DigitChars[(n % 10) + 1]>>

\* x.toString() of a number x.
NumberToString(x) ==
    CASE x.k = "fin" -> (IF x.v < 0 THEN <<"-">> ELSE <<>>) \o NatToDigits(Abs(x.v))
      [] x.k = "nan" -> <<"N", "a", "N">>
      [] x.k = "inf" -> (IF x.v < 0 THEN <<"-">> ELSE <<>>)
                        \o <<"I", "n", "f", "i", "n", "i", "t", "y">>
      [] x.k = "big" -> <<"1", "e", "+", "2", "1">>

LowerChar(c) == IF c = "N" THEN "n" ELSE IF c = "I" THEN "i" ELSE c

toLowerCase(str) == [i \in 1..Len(str) |-> LowerChar(str[i])]

UpperChar(c) ==
    IF \E i \in 11..16 : HexLower[i] = c
    THEN HexUpper[CHOOSE i \in 11..16 : HexLower[i] = c]
    ELSE c

toUpperCase(str) == [i \in 1..Len(str) |-> UpperChar(str[i])]

\* Index of the first occurrence of the character c in str, 0 when absent.
IndexOf(str, c) ==
    IF \E i \in 1..Len(str) : str[i] = c
    THEN CHOOSE i \in 1..Len(str) : str[i] = c /\ \A j \in 1..(i - 1) : str[j] # c
    ELSE 0

StripSign(t) == IF Len(t) > 0 /\ t[1] \in {"+", "-"} THEN Tail(t) ELSE t

\* [-+]?\d*\.?\d+
IsDecimalText(t) ==
    LET r == StripSign(t)
    IN  /\ Len(r) >= 1
        /\ \A i \in 1..Len(r) : IsDigit(r[i]) \/ r[i] = "."
        /\ Cardinality({i \in 1..Len(r) : r[i] = "."}) <= 1
        /\ IsDigit(r[Len(r)])

\* ([-+]?\d*\.?\d+|nan|[-+]?inf)
IsParticleText(t) ==
    \/ IsDecimalText(t)
    \/ t = <<"n", "a", "n">>
    \/ StripSign(t) = <<"i", "n", "f">>

\* dist.match(/^([-+]?\d*\.?\d+|nan|[-+]?inf)?Ux([0-9A-Fa-f]+)$/): the two
\* groups, group 1 undefined when it took no part in the match.
UxMatch(dist) ==
    LET u == IndexOf(dist, "U")
        pre == SubSeq(dist, 1, u - 1)
        hex == SubSeq(dist, u + 2, Len(dist))
        ok == /\ u > 0
              /\ u < Len(dist)
              /\ dist[u + 1] = "x"
              /\ (Len(pre) = 0 \/ IsParticleText(pre))
              /\ Len(hex) >= 1
              /\ \A i \in 1..Len(hex) : IsHexChar(hex[i])
    IN  [matched |-> ok,
         g1 |-> IF ok /\ Len(pre) > 0 THEN [k |-> "str", v |-> 0] ELSE Undefined,
         g1text |-> IF ok THEN pre ELSE <<>>,
         g2 |-> IF ok THEN hex ELSE <<>>]

\* parseFloat of a decimal text: its value when it is an integer.
DecimalValue(t) ==
    LET r == StripSign(t)
        dot == IndexOf(r, ".")
        int == IF dot = 0 THEN r ELSE SubSeq(r, 1, dot - 1)
        frac == IF dot = 0 THEN <<>> ELSE SubSeq(r, dot + 1, Len(r))
        sgn == IF Len(t) > 0 /\ t[1] = "-" THEN -1 ELSE 1
    IN  IF \A i \in 1..Len(frac) : frac[i] = "0"
        THEN Fin(sgn * DigitsValue(int))
        ELSE Oth

\* parseFloat(x) for x undefined or a string: only decimal text (and the
\* word Infinity, which the regular expression never lets through) is a number.
parseFloat(x, text) ==
    IF x.k = "str" /\ IsDecimalText(text) THEN DecimalValue(text) ELSE NaN

(***************************************************************************)
(* DiracDelta.  A delta is [position, raw_mass, mass]; both masses are in  *)
(* units of 1/FIXED_POINT_ONE.                                             *)
(***************************************************************************)
\* new DiracDelta({position, raw_mass}): mass = Number(raw_mass) / FIXED_POINT_ONE.
DeltaRaw(position, raw_mass) ==
    [position |-> position, raw_mass |-> raw_mass,
     mass |-> IF raw_mass.k = "fin" THEN Fin(fl(raw_mass.v)) ELSE raw_mass]

\* new DiracDelta({position, mass}): raw_mass = mass * FIXED_POINT_ONE, 0 for NaN.
DeltaMass(position, mass) ==
    [position |-> position, raw_mass |-> IF mass.k = "nan" THEN Fin(0) ELSE mass,
     mass |-> mass]

\* The array element undefined, where a delta is expected.
UndefinedDelta == [position |-> Undefined, raw_mass |-> Undefined, mass |-> Undefined]

IsDelta(dd) == dd.position.k \in {"fin", "nan", "inf", "oth"}

add(a, b) ==
    LET combined_mass == FAdd(a.mass, b.mass)
        combined_position ==
            FDiv(FAdd(FMul(a.position, a.mass), FMul(b.position, b.mass)), combined_mass)
    IN  DeltaMass(combined_position, combined_mass)

similar(a, b, threshold) == FLe(FAbs(FSub(a.position, b.position)), threshold)

\* Stable insertion of dd into a list sorted with DiracDelta.comparator.
RECURSIVE InsertSorted(_, _)
InsertSorted(sorted, dd) ==
    IF Len(sorted) = 0 THEN <<dd>>
    ELSE IF FGt(Head(sorted).position, dd.position) THEN <<dd>> \o sorted
    ELSE <<Head(sorted)>> \o InsertSorted(Tail(sorted), dd)

\* Array.prototype.sort(DiracDelta.comparator) on finite positions.
RECURSIVE SortDeltas(_)
SortDeltas(s) ==
    IF Len(s) = 0 THEN <<>>
    ELSE InsertSorted(SortDeltas(SubSeq(s, 1, Len(s) - 1)), s[Len(s)])

\* The branch of sort() that takes the delta: Number.isFinite, isNaN, or one of
\* the two infinities.
PosClass(dd) ==
    IF dd.position.k \in {"fin", "oth"} THEN "finite"
    ELSE IF dd.position.k = "nan" THEN "nan"
    ELSE IF dd.position.k = "inf" THEN (IF dd.position.v < 0 THEN "neg_inf" ELSE "pos_inf")
    ELSE "undefined"

RECURSIVE SelectDeltas(_, _)
SelectDeltas(s, class) ==
    IF Len(s) = 0 THEN <<>>
    ELSE (IF PosClass(Head(s)) = class THEN <<Head(s)>> ELSE <<>>)
         \o SelectDeltas(Tail(s), class)

\* acc plus, in list order, the masses of the deltas of the class.
RECURSIVE SumMass(_, _, _)
SumMass(s, class, acc) ==
    IF Len(s) = 0 THEN acc
    ELSE SumMass(Tail(s), class,
                 IF PosClass(Head(s)) = class THEN FAdd(acc, Head(s).mass) ELSE acc)

(***************************************************************************)
(* DistributionalValue.  The three special deltas are held by their mass;  *)
(* a cached flag is "null", "true" or "false".                             *)
(***************************************************************************)
NewValue(particle_value, UR_type, dirac_deltas, double_precision) ==
    [particle_value |-> particle_value,
     UR_type |-> UR_type,
     dirac_deltas |-> dirac_deltas,
     double_precision |-> double_precision,
     mean |-> Null,
     variance |-> Null,
     nan_mass |-> NaN,
     neg_inf_mass |-> NaN,
     pos_inf_mass |-> NaN,
     has_no_zero_mass |-> "null",
     is_finite |-> "null",
     is_sorted |-> "null",
     is_cured |-> "null",
     is_full_valid_TTR |-> "null"]

UR_order(d) == Len(d.dirac_deltas)

HasUndefined(d) == \E i \in 1..Len(d.dirac_deltas) : ~IsDelta(d.dirac_deltas[i])

Positive(m) == FGt(m, Fin(0))

has_special_values(d) ==
    Positive(d.nan_mass) \/ Positive(d.neg_inf_mass) \/ Positive(d.pos_inf_mass)

SpecialDeltas(d) ==
    <<DeltaMass(NaN, d.nan_mass), DeltaMass(NegInf, d.neg_inf_mass),
      DeltaMass(PosInf, d.pos_inf_mass)>>

\* Number.isFinite(this.dirac_deltas[i]): the argument is a DiracDelta, not a
\* number, so the answer is false.
NumberIsFiniteOfDelta(dd) == FALSE

check_is_sorted(d) ==
    IF UR_order(d) = 0 THEN [val |-> "null", warns |-> <<"No Dirac Deltas found.">>]
    ELSE IF UR_order(d) = 1 THEN [val |-> "true", warns |-> <<>>]
    ELSE IF \E i \in 1..(UR_order(d) - 1) :
                \/ ~NumberIsFiniteOfDelta(d.dirac_deltas[i])
                \/ FGt(d.dirac_deltas[i].position, d.dirac_deltas[i + 1].position)
         THEN [val |-> "false", warns |-> <<>>]
         ELSE [val |-> "true", warns |-> <<>>]

\* get is_sorted(): fills the cache when it is null; before it, the same
\* without the cache.
is_sortedUncached(d) ==
    LET c == check_is_sorted(d)
    IN  [d |-> [d EXCEPT !.is_sorted = c.val], val |-> c.val, warns |-> c.warns]

is_sorted(d) ==
    IF d.is_sorted = "null"
    THEN LET c == check_is_sorted(d)
         IN  [d |-> [d EXCEPT !.is_sorted = c.val], val |-> c.val, warns |-> c.warns]
    ELSE [d |-> d, val |-> d.is_sorted, warns |-> <<>>]

\* The body of sort(), past the is_sorted test; before it, the same without
\* the reset of the three special masses and without the final
\* _is_sorted = true.
sortBodyAccumulating(d) ==
    LET start(m) == IF m.k = "nan" THEN Fin(0) ELSE m
        d1 == [d EXCEPT !.nan_mass = SumMass(d.dirac_deltas, "nan", start(d.nan_mass)),
                        !.neg_inf_mass = SumMass(d.dirac_deltas, "neg_inf",
                                                 start(d.neg_inf_mass)),
                        !.pos_inf_mass = SumMass(d.dirac_deltas, "pos_inf",
                                                 start(d.pos_inf_mass))]
        sorted == SortDeltas(SelectDeltas(d.dirac_deltas, "finite"))
    IN  [d1 EXCEPT !.dirac_deltas = IF has_special_values(d1)
                                    THEN sorted \o SpecialDeltas(d1)
                                    ELSE sorted]

sortBody(d) ==
    LET finite_dirac_deltas == SelectDeltas(d.dirac_deltas, "finite")
        d1 == [d EXCEPT !.nan_mass = SumMass(d.dirac_deltas, "nan", Fin(0)),
                        !.neg_inf_mass = SumMass(d.dirac_deltas, "neg_inf", Fin(0)),
                        !.pos_inf_mass = SumMass(d.dirac_deltas, "pos_inf", Fin(0))]
        sorted == SortDeltas(finite_dirac_deltas)
    IN  [d1 EXCEPT !.dirac_deltas = IF has_special_values(d1)
                                    THEN sorted \o SpecialDeltas(d1)
                                    ELSE sorted,
                   !.is_sorted = "true"]

sort(d) ==
    LET g == is_sorted(d)
    IN  IF g.val = "true" THEN [d |-> g.d, warns |-> g.warns]
        ELSE [d |-> sortBody(g.d), warns |-> g.warns]

\* Array.prototype.slice(0, -3).
SliceOffThree(s) == SubSeq(s, 1, Len(s) - 3)

\* get finite_dirac_deltas(): sorts, then cuts the last three when special
\* values are present.
finite_dirac_deltas(d) ==
    LET s == sort(d)
    IN  [d |-> s.d,
         val |-> IF has_special_values(s.d) THEN SliceOffThree(s.d.dirac_deltas)
                 ELSE s.d.dirac_deltas,
         warns |-> s.warns]

RECURSIVE KeepPositive(_)
KeepPositive(s) ==
    IF Len(s) = 0 THEN <<>>
    ELSE (IF Positive(Head(s).mass) THEN <<Head(s)>> ELSE <<>>) \o KeepPositive(Tail(s))

\* drop_zero_mass_positions().  Reading dd.mass of an undefined element throws.
drop_zero_mass_positions(d) ==
    IF d.has_no_zero_mass = "true" THEN [d |-> d, warns |-> <<>>, threw |-> FALSE]
    ELSE IF UR_order(d) = 0
    THEN [d |-> d, warns |-> <<"No Dirac Deltas found.">>, threw |-> FALSE]
    ELSE IF HasUndefined(d) THEN [d |-> d, warns |-> <<>>, threw |-> TRUE]
    ELSE [d |-> [d EXCEPT !.dirac_deltas = KeepPositive(d.dirac_deltas),
                          !.has_no_zero_mass = "true"],
          warns |-> <<>>, threw |-> FALSE]

\* A threshold multiplier num/den times the double x.
Scaled(x, q) == FDiv(FMul(x, Fin(q.num)), Fin(q.den))

FMax(x, y) == IF x.k = "nan" \/ y.k = "nan" THEN NaN ELSE IF FGt(y, x) THEN y ELSE x

RECURSIVE SumWeighted(_, _)
SumWeighted(s, acc) ==
    IF Len(s) = 0 THEN acc
    ELSE SumWeighted(Tail(s), FAdd(acc, FMul(Head(s).position, Head(s).mass)))

RECURSIVE SumAllMass(_, _)
SumAllMass(s, acc) ==
    IF Len(s) = 0 THEN acc ELSE SumAllMass(Tail(s), FAdd(acc, Head(s).mass))

\* The closeness threshold of combine_dirac_deltas on the sorted value d.
combineThreshold(d, finite, rmt, rrt) ==
    IF rmt.num > 0 /\ rrt.num > 0
    THEN LET finite_mass == SumAllMass(finite, Fin(0))
             finite_mean == FDiv(SumWeighted(finite, Fin(0)), finite_mass)
             mean_threshold == Scaled(finite_mean, rmt)
             range_threshold ==
                 Scaled(FSub(finite[Len(finite)].position, d.dirac_deltas[1].position), rrt)
         IN  FMax(mean_threshold, range_threshold)
    ELSE Fin(0)

\* The loop of combine_dirac_deltas: acc is the list built so far.
RECURSIVE combineLoop(_, _, _)
combineLoop(acc, rest, threshold) ==
    IF Len(rest) = 0 THEN acc
    ELSE LET dd == Head(rest)
             last == acc[Len(acc)]
         IN  IF similar(last, dd, threshold)
             THEN combineLoop([acc EXCEPT ![Len(acc)] = add(last, dd)], Tail(rest),
                              threshold)
             ELSE combineLoop(Append(acc, DeltaRaw(dd.position, dd.raw_mass)),
                              Tail(rest), threshold)

\* combine_dirac_deltas(relative_mean_threshold, relative_range_threshold).
\* With both thresholds positive the code reads the last finite delta and the
\* first delta, which throws when there is none.
combine_dirac_deltas(d, rmt, rrt) ==
    LET combined(s, f, dirac_deltas) ==
            [d |-> [s.d EXCEPT !.dirac_deltas =
                                   IF has_special_values(s.d)
                                   THEN dirac_deltas \o SpecialDeltas(s.d)
                                   ELSE dirac_deltas,
                               !.is_cured = "true"],
             warns |-> s.warns, threw |-> FALSE]
        listed(s, f) ==
            LET first == IF Len(s.d.dirac_deltas) = 0 THEN UndefinedDelta
                         ELSE s.d.dirac_deltas[1]
            IN  IF rmt.num > 0 /\ rrt.num > 0 /\ (Len(f) = 0 \/ ~IsDelta(first))
                THEN [d |-> s.d, warns |-> s.warns, threw |-> TRUE]
                ELSE IF Len(f) > 1 /\ ~IsDelta(first)
                THEN [d |-> s.d, warns |-> s.warns, threw |-> TRUE]
                ELSE combined(s, f,
                              combineLoop(<<first>>, SubSeq(f, 2, Len(f)),
                                          combineThreshold(s.d, f, rmt, rrt)))
        sorted(s) == listed(s, finite_dirac_deltas(s.d).val)
    IN  sorted(sort(d))

Zero == [num |-> 0, den |-> 1]

cure(d) ==
    IF d.is_cured = "true" THEN [d |-> d, warns |-> <<>>, threw |-> FALSE]
    ELSE combine_dirac_deltas(d, Zero, Zero)

\* calculate_mean(): the value stored in _mean; before it, the mean of the
\* finite deltas alone.
calculate_meanOfFinite(d) ==
    FDiv(SumWeighted(SelectDeltas(d.dirac_deltas, "finite"), Fin(0)),
         SumAllMass(SelectDeltas(d.dirac_deltas, "finite"), Fin(0)))

calculate_mean(d) ==
    IF Positive(d.nan_mass) THEN NaN
    ELSE IF Positive(d.neg_inf_mass) /\ Positive(d.pos_inf_mass) THEN NaN
    ELSE IF Positive(d.neg_inf_mass) THEN NegInf
    ELSE IF Positive(d.pos_inf_mass) THEN PosInf
    ELSE FDiv(SumWeighted(d.dirac_deltas, Fin(0)), SumAllMass(d.dirac_deltas, Fin(0)))

\* get mean(): fills the cache when it is null.
mean(d) == IF d.mean.k = "null" THEN [d EXCEPT !.mean = calculate_mean(d)] ELSE d

\* The sum of calculate_variance: acc plus ((position - mean) ** 2) * mass of
\* each delta, in list order.
RECURSIVE SumSquaredDiffs(_, _, _)
SumSquaredDiffs(s, m, acc) ==
    IF Len(s) = 0 THEN acc
    ELSE LET diff == FSub(Head(s).position, m)
         IN  SumSquaredDiffs(Tail(s), m,
                             FAdd(acc, FMul(FMul(diff, diff), Head(s).mass)))

\* calculate_variance(): reads the mean first, which fills the mean's cache.
calculate_variance(d) ==
    LET d1 == mean(d)
    IN  IF d1.mean.k = "null" \/ UR_order(d1) = 0 \/ ~IsFin(d1.mean)
        THEN [d1 EXCEPT !.variance = Null]
        ELSE [d1 EXCEPT !.variance = FDiv(SumSquaredDiffs(d1.dirac_deltas, d1.mean, Fin(0)),
                                          SumAllMass(d1.dirac_deltas, Fin(0)))]

\* get variance(): fills the cache when it is null.
variance(d) == IF d.variance.k = "null" THEN calculate_variance(d) ELSE d

(***************************************************************************)
(* The Ux codec.  A wire is [t, d]: t = "str" with d a sequence of         *)
(* characters, or t = "bytes" with d a sequence of bytes.                  *)
(***************************************************************************)
STRUCT_FORMATS_AllBig(kind, field) ==
    CASE field = "particle" -> IF kind = "str" THEN "" ELSE ">d"
      [] field = "UR_type" -> ">B"
      [] field = "sample_count" -> ">Q"
      [] field = "mean" -> ">d"
      [] field = "UR_order" -> ">I"
      [] field = "position_single" -> ">f"
      [] field = "position_double" -> ">d"
      [] field = "mass" -> ">Q"

STRUCT_FORMATS(kind, field) ==
    IF kind = "str"
    THEN CASE field = "particle" -> ""
           [] field = "UR_type" -> ">B"
           [] field = "sample_count" -> ">Q"
           [] field = "mean" -> ">d"
           [] field = "UR_order" -> ">I"
           [] field = "position_single" -> ">f"
           [] field = "position_double" -> ">d"
           [] field = "mass" -> ">Q"
    ELSE CASE field = "particle" -> "<d"
           [] field = "UR_type" -> "<B"
           [] field = "sample_count" -> "<Q"
           [] field = "mean" -> "<d"
           [] field = "UR_order" -> "<I"
           [] field = "position_single" -> "<f"
           [] field = "position_double" -> "<d"
           [] field = "mass" -> "<Q"

\* struct.pack(...) || []
packOrEmpty(format, arr) == pack(format, arr).val

RECURSIVE exportPairs(_, _, _)
exportPairs(deltas, position_format, mass_format) ==
    IF Len(deltas) = 0 THEN <<>>
    ELSE packOrEmpty(position_format, <<Head(deltas).position>>)
         \o packOrEmpty(mass_format, <<Head(deltas).raw_mass>>)
         \o exportPairs(Tail(deltas), position_format, mass_format)

\* export(to_str).  Reading the mean fills its cache; reading the positions of
\* a list that holds undefined throws.
export(d, to_str) ==
    LET kind == IF to_str THEN "str" ELSE "bytes"
        UxString == IF d.particle_value.k # "null"
                    THEN toLowerCase(NumberToString(d.particle_value)) \o <<"U", "x">>
                    ELSE <<"U", "x">>
        particle_value == IF d.particle_value.k # "null" THEN d.particle_value ELSE Fin(0)
        d1 == mean(d)
        position_format == STRUCT_FORMATS(kind, IF d.double_precision THEN "position_double"
                                                ELSE "position_single")
        buffer == (IF to_str THEN <<>>
                   ELSE packOrEmpty(STRUCT_FORMATS(kind, "particle"), <<particle_value>>))
                  \o packOrEmpty(STRUCT_FORMATS(kind, "UR_type"), <<d.UR_type>>)
                  \o packOrEmpty(STRUCT_FORMATS(kind, "sample_count"), <<Fin(UR_order(d))>>)
                  \o packOrEmpty(STRUCT_FORMATS(kind, "mean"), <<d1.mean>>)
                  \o packOrEmpty(STRUCT_FORMATS(kind, "UR_order"), <<Fin(UR_order(d))>>)
                  \o exportPairs(d.dirac_deltas, position_format,
                                 STRUCT_FORMATS(kind, "mass"))
    IN  IF HasUndefined(d) THEN [d |-> d, threw |-> TRUE, val |-> [t |-> kind, d |-> <<>>]]
        ELSE [d |-> d1, threw |-> FALSE,
              val |-> [t |-> kind,
                       d |-> IF to_str THEN UxString \o bytes_tohex(buffer) ELSE buffer]]

\* Array.prototype.slice(from, to) with 0-based bounds.
Slice(buffer, from, to) ==
    SubSeq(buffer, from + 1, IF to > Len(buffer) THEN Len(buffer) ELSE to)

\* (struct.unpack(format, bytes) || [fallback])[0], with unpack's warnings.
unpackFirst(format, bytes, fallback) ==
    LET u == unpack(format, bytes)
    IN  [val |-> IF u.isnull THEN fallback ELSE u.val[1], warns |-> u.warns]

RECURSIVE parsePairs(_, _, _, _, _, _)
parsePairs(buffer, offset, n, bytes_per_position, position_format, mass_format) ==
    IF n = 0 THEN [val |-> <<>>, warns |-> <<>>]
    ELSE LET position == unpackFirst(position_format,
                                     Slice(buffer, offset, offset + bytes_per_position),
                                     Fin(0))
             raw_mass == unpackFirst(mass_format,
                                     Slice(buffer, offset + bytes_per_position,
                                           offset + bytes_per_position + 8),
                                     Fin(0))
             rest == parsePairs(buffer, offset + bytes_per_position + 8, n - 1,
                                bytes_per_position, position_format, mass_format)
         IN  [val |-> <<DeltaRaw(position.val, raw_mass.val)>> \o rest.val,
              warns |-> position.warns \o raw_mass.warns \o rest.warns]

MaxUROrder == 10000

HeaderLength == 21

\* The length checks of parse(): buffer.length < min_length and
\* buffer.length < expected_length.
lengthAlwaysEnough(length, needed) == FALSE

lengthBelow(length, needed) == length < needed

\* parse(), from the length check on: buffer, the offset past the particle,
\* the particle value and the warnings so far.
parseBody(kind, buffer, offset, particle_value, double_precision, warns0) ==
    LET min_length == offset + HeaderLength
        UR_type == unpackFirst(STRUCT_FORMATS(kind, "UR_type"),
                               Slice(buffer, offset, offset + 1), Fin(0))
        mean_ == unpackFirst(STRUCT_FORMATS(kind, "mean"),
                             Slice(buffer, offset + 9, offset + 17), Fin(0))
        order == unpackFirst(STRUCT_FORMATS(kind, "UR_order"),
                             Slice(buffer, offset + 17, offset + 21), Fin(0))
        warns1 == warns0 \o UR_type.warns \o mean_.warns \o order.warns
        bytes_per_position == IF double_precision THEN 8 ELSE 4
        bytes_per_dirac_delta == bytes_per_position + 8
        expected_length == min_length + order.val.v * bytes_per_dirac_delta
        position_format == STRUCT_FORMATS(kind, IF double_precision THEN "position_double"
                                                ELSE "position_single")
        pairs == parsePairs(buffer, offset + 21, order.val.v, bytes_per_position,
                            position_format, STRUCT_FORMATS(kind, "mass"))
        blank == NewValue(particle_value, Null, <<>>, double_precision)
    IN  IF lengthBelow(Len(buffer), min_length)
        THEN [isnull |-> TRUE, d |-> blank,
              warns |-> warns0 \o <<"Input data do not include the mandatory fields.">>]
        ELSE IF order.val.k \in {"null", "oth"} \/ order.val.v < 0
                \/ order.val.v > MaxUROrder
        THEN [isnull |-> TRUE, d |-> blank,
              warns |-> warns1 \o <<"UR order out of normal bounds:">>]
        ELSE IF lengthBelow(Len(buffer), expected_length)
        THEN [isnull |-> TRUE, d |-> blank,
              warns |-> warns1 \o <<"Not enough data to read for UR order of:">>]
        ELSE [isnull |-> FALSE,
              d |-> [blank EXCEPT !.UR_type = UR_type.val,
                                  !.mean = mean_.val,
                                  !.dirac_deltas = pairs.val],
              warns |-> warns1 \o pairs.warns]

\* DistributionalValue.parse(dist, double_precision).
parse(dist, double_precision) ==
    IF dist.t = "str"
    THEN LET match == UxMatch(dist.d)
             hex == bytes_fromhex(match.g2)
         IN  IF ~match.matched
             THEN [isnull |-> TRUE, d |-> NewValue(Null, Null, <<>>, double_precision),
                   warns |-> <<"Faulty Ux-string format.">>]
             ELSE parseBody("str", hex.val, 0,
                            IF match.g1.k # "null" THEN parseFloat(match.g1, match.g1text)
                            ELSE Null,
                            double_precision, hex.warns)
    ELSE LET particle == unpackFirst(STRUCT_FORMATS("bytes", "particle"),
                                     Slice(dist.d, 0, 8), Null)
         IN  parseBody("bytes", dist.d, 8, particle.val, double_precision, particle.warns)

(***************************************************************************)
(* Wire inputs, laid out field by field as the Ux format describes them    *)
(* (particle, "Ux", representation type, number of samples, mean, number   *)
(* of Dirac deltas, then the pairs), with the defects a caller can hand    *)
(* to parse.                                                               *)
(***************************************************************************)
F64(x) == BytesOfBits(FloatBits(x, 11, 52, 1023))

F32(x) == BytesOfBits(FloatBits(x, 8, 23, 127))

\* Most significant byte first in a Ux-string, least significant first in
\* Ux-bytes.
Ordered(kind, bytes) == IF kind = "str" THEN bytes ELSE Reverse(bytes)

RECURSIVE FramePairs(_, _, _)
FramePairs(kind, dp, pairs) ==
    IF Len(pairs) = 0 THEN <<>>
    ELSE Ordered(kind, IF dp THEN F64(Head(pairs).position) ELSE F32(Head(pairs).position))
         \o Ordered(kind, UIntBytes(Head(pairs).raw_mass, 8))
         \o FramePairs(kind, dp, Tail(pairs))

DeclaredOrder(f) ==
    IF f.defect = "order_plus_one" THEN Len(f.pairs) + 1
    ELSE IF f.defect = "order_too_large" THEN MaxUROrder + 1
    ELSE Len(f.pairs)

FrameBody(f) ==
    LET kind == IF f.fmt = "bytes" THEN "bytes" ELSE "str"
        whole == Ordered(kind, UIntBytes(f.ur_type, 1))
                 \o Ordered(kind, UIntBytes(f.sample_count, 8))
                 \o Ordered(kind, F64(f.mean))
                 \o Ordered(kind, UIntBytes(DeclaredOrder(f), 4))
                 \o FramePairs(kind, f.dp, f.pairs)
    IN  IF f.defect = "cut_one" THEN SubSeq(whole, 1, Len(whole) - 1)
        ELSE IF f.defect = "cut_header" THEN SubSeq(whole, 1, 10)
        ELSE IF f.defect = "trailing" THEN whole \o <<0>>
        ELSE whole

HexText(f, bytes) ==
    LET up == bytes_tohex(bytes)
        cased == IF f.fmt = "str_lower"
                 THEN [i \in 1..Len(up) |->
                          IF \E j \in 11..16 : HexUpper[j] = up[i]
                          THEN HexLower[CHOOSE j \in 11..16 : HexUpper[j] = up[i]]
                          ELSE up[i]]
                 ELSE up
    IN  IF f.defect = "odd_hex" THEN SubSeq(cased, 1, Len(cased) - 1) ELSE cased

\* The double a producer writes in the particle field of Ux-bytes.
ParticleDouble(f) == IF Len(f.ptext) = 0 THEN Fin(0) ELSE parseFloat([k |-> "str"], f.ptext)

FrameWire(f) ==
    IF f.fmt = "bytes"
    THEN [t |-> "bytes",
          d |-> IF f.defect = "short_particle" THEN <<1, 2, 3>>
                ELSE Reverse(F64(ParticleDouble(f))) \o FrameBody(f)]
    ELSE [t |-> "str",
          d |-> (IF f.defect = "bad_prefix" THEN <<"1", "e", "+", "2", "1">> ELSE f.ptext)
                \o (IF f.defect = "no_marker" THEN <<>> ELSE <<"U", "x">>)
                \o HexText(f, FrameBody(f))]

WellFormed(f) == f.defect = "none"

ParticleTexts ==
    {<<>>, <<"2">>, <<"2", ".", "0">>, <<"-", "1">>, <<"i", "n", "f">>}

PairLists ==
    {<<>>, <<[position |-> Fin(9), raw_mass |-> 2]>>,
     <<[position |-> Fin(9), raw_mass |-> 2], [position |-> NaN, raw_mass |-> 3]>>}

Defects(fmt) ==
    {"none", "cut_one", "cut_header", "trailing", "order_plus_one", "order_too_large"}
    \cup (IF fmt = "bytes" THEN {"short_particle"} ELSE {"odd_hex", "bad_prefix", "no_marker"})

Frames ==
    {f \in [ptext : ParticleTexts, ur_type : {7}, sample_count : {1, 2},
            mean : {NaN}, pairs : PairLists, dp : BOOLEAN,
            fmt : {"str", "str_lower", "bytes"},
            defect : {"none", "cut_one", "cut_header", "trailing", "order_plus_one",
                      "order_too_large", "short_particle", "odd_hex", "bad_prefix",
                      "no_marker"}] :
        /\ f.defect \in Defects(f.fmt)
        /\ (f.fmt = "bytes" => f.ptext \in {<<>>, <<"2">>})
        /\ (f.defect # "none" => f.sample_count = 1 /\ f.ptext \in {<<>>, <<"2">>})}

NoFrame ==
    [ptext |-> <<>>, ur_type |-> 0, sample_count |-> 0, mean |-> Fin(0), pairs |-> <<>>,
     dp |-> TRUE, fmt |-> "none", defect |-> "none"]

NoWire == [t |-> "none", d |-> <<>>]

(***************************************************************************)
(* Values a caller constructs.                                             *)
(***************************************************************************)
DeltaLists(domain, n) == UNION {[1..m -> domain] : m \in 0..n}

CodecDeltas == {DeltaRaw(Fin(9), Fin(2)), DeltaRaw(Fin(10), Fin(3)), DeltaRaw(NaN, Fin(3))}

CodecValues ==
    {NewValue(p, t, dd, dp) :
        p \in {Null, Fin(2), Big, NaN},
        t \in {Null, Fin(7)},
        dd \in DeltaLists(CodecDeltas, 2),
        dp \in BOOLEAN}

NormDeltas ==
    {DeltaRaw(Fin(9), Fin(2)), DeltaRaw(Fin(9), Fin(3)), DeltaRaw(Fin(9), Fin(0)),
     DeltaRaw(Fin(5), Fin(2)), DeltaRaw(NaN, Fin(2)), DeltaRaw(NegInf, Fin(3)),
     DeltaRaw(PosInf, Fin(2))}

NormValues == {NewValue(Null, Fin(0), dd, TRUE) : dd \in DeltaLists(NormDeltas, MaxDeltas)}

QueryDeltas == 2

\* Frames whose mean field is a number of the producer's choosing.
QueryFrames ==
    {[f EXCEPT !.mean = m] :
        f \in {g \in Frames : /\ WellFormed(g)
                              /\ g.fmt \in {"str", "bytes"}
                              /\ g.ptext = <<"2">>
                              /\ g.sample_count = 1},
        m \in {NaN, Fin(9)}}

QueryValues ==
    {NewValue(Null, Fin(0), dd, TRUE) :
        dd \in DeltaLists({DeltaRaw(Fin(9), Fin(2)), DeltaRaw(Fin(5), Fin(3)),
                           DeltaRaw(NaN, Fin(2)), DeltaRaw(PosInf, Fin(2))}, QueryDeltas)}

(***************************************************************************)
(* State.                                                                  *)
(*   dv      the distributional value at hand                              *)
(*   isnull  parse returned null (dv is then the value it discarded)       *)
(*   wire    the Ux-string or Ux-bytes at hand: the input of parse, the    *)
(*           result of export                                              *)
(*   dv0, wire0   dv and wire before the last operation                    *)
(*   warns   the warnings of the last operation, in order                  *)
(*   threw   the last operation threw an error                             *)
(*   hist    the operations called so far                                  *)
(*   origin  the frame the first wire was laid out from                    *)
(*   pdp     the double_precision argument of the last parse               *)
(*   made    the value as the caller constructed it                        *)
(*   ret     what the last property read, check or construction returned   *)
(*   args    the arguments of the last operation, where one is recorded    *)
(***************************************************************************)
VARIABLES dv, isnull, wire, dv0, wire0, warns, threw, hist, origin, pdp, made, ret, args

vars == <<dv, isnull, wire, dv0, wire0, warns, threw, hist, origin, pdp, made, ret, args>>

BlankValue == NewValue(Null, Null, <<>>, TRUE)

InitCommon ==
    /\ dv0 = BlankValue
    /\ wire0 = NoWire
    /\ warns = <<>>
    /\ threw = FALSE
    /\ hist = <<>>
    /\ pdp = TRUE
    /\ ret = Null
    /\ args = <<>>

\* A caller holds a value it constructed.
InitValue(values) ==
    /\ dv \in values
    /\ made = dv
    /\ isnull = FALSE
    /\ wire = NoWire
    /\ origin = NoFrame
    /\ InitCommon

\* A caller holds a wire input.
InitWire ==
    /\ origin \in Frames
    /\ wire = FrameWire(origin)
    /\ dv = BlankValue
    /\ made = BlankValue
    /\ isnull = TRUE
    /\ InitCommon

StepWith(name, arguments) ==
    /\ Len(hist) < MaxSteps
    /\ ~threw
    /\ hist' = Append(hist, name)
    /\ dv0' = dv
    /\ wire0' = wire
    /\ made' = made
    /\ args' = arguments

Step(name) == StepWith(name, <<>>)

Parse ==
    /\ wire.t # "none"
    /\ \E double_precision \in BOOLEAN :
          LET r == parse(wire, double_precision)
          IN  /\ Step("parse")
              /\ dv' = r.d
              /\ isnull' = r.isnull
              /\ warns' = r.warns
              /\ pdp' = double_precision
              /\ threw' = FALSE
              /\ UNCHANGED <<wire, origin, ret>>

Export(to_str) ==
    /\ ~isnull
    /\ LET r == export(dv, to_str)
       IN  /\ Step(IF to_str THEN "export_str" ELSE "export_bytes")
           /\ dv' = r.d
           /\ wire' = IF r.threw THEN wire ELSE r.val
           /\ threw' = r.threw
           /\ warns' = <<>>
           /\ UNCHANGED <<isnull, origin, pdp, ret>>

ExportStr == Export(TRUE)

ExportBytes == Export(FALSE)

Normalise(name, r) ==
    /\ ~isnull
    /\ Step(name)
    /\ dv' = r.d
    /\ warns' = r.warns
    /\ threw' = r.threw
    /\ UNCHANGED <<isnull, wire, origin, pdp, ret>>

Sort == Normalise("sort", [d |-> sort(dv).d, warns |-> sort(dv).warns, threw |-> FALSE])

DropZeroMass == Normalise("drop_zero_mass_positions", drop_zero_mass_positions(dv))

Cure == Normalise("cure", cure(dv))

\* A property read: it may fill caches of the value, and returns val.
Query(name, r) ==
    /\ ~isnull
    /\ Step(name)
    /\ dv' = r.d
    /\ ret' = r.val
    /\ warns' = <<>>
    /\ threw' = FALSE
    /\ UNCHANGED <<isnull, wire, origin, pdp>>

Mean == Query("mean", [d |-> mean(dv), val |-> mean(dv).mean])

Variance == Query("variance", [d |-> variance(dv), val |-> variance(dv).variance])

InitCodec == InitWire \/ InitValue(CodecValues)

NextCodec == Parse \/ ExportStr \/ ExportBytes

SpecCodec == InitCodec /\ [][NextCodec]_vars

Init == InitValue(NormValues)

Next == Sort \/ DropZeroMass \/ Cure \/ ExportBytes

Spec == Init /\ [][Next]_vars

(***************************************************************************)
(* Properties of the codec, checked under SpecCodec.                       *)
(***************************************************************************)
\* The last operation called.
Last == IF Len(hist) = 0 THEN "none" ELSE hist[Len(hist)]

\* The frame a producer lays out for the value d in the format fmt, read off
\* the Ux format description: UR_type (0 when unset), the number of deltas as
\* both counts, the mean, then each position and raw mass.
FrameOf(d, fmt) ==
    [ptext |-> <<>>,
     ur_type |-> IF d.UR_type.k = "fin" THEN d.UR_type.v ELSE 0,
     sample_count |-> Len(d.dirac_deltas),
     mean |-> d.mean,
     pairs |-> [i \in 1..Len(d.dirac_deltas) |->
                   [position |-> d.dirac_deltas[i].position,
                    raw_mass |-> d.dirac_deltas[i].raw_mass.v]],
     dp |-> d.double_precision,
     fmt |-> fmt,
     defect |-> "none"]

\* The deltas of d are the pairs of the frame f: same count, same order, same
\* position and same raw mass.
SamePairs(d, f) ==
    /\ Len(d.dirac_deltas) = Len(f.pairs)
    /\ \A i \in 1..Len(f.pairs) :
          /\ d.dirac_deltas[i].position = f.pairs[i].position
          /\ d.dirac_deltas[i].raw_mass = Fin(f.pairs[i].raw_mass)

\* C1: for every well-formed wire input w, parse(w) followed by export in the
\* same format returns w again, byte for byte (for a Ux-string character for
\* character, up to the case of the hex letters).  Well-formed is taken at its
\* narrowest: a complete frame whose two counts agree, whose particle prefix,
\* when there is one, is written as the encoder writes it, and which is parsed
\* with the precision it was laid out in.
C1_ParseExportIsIdentity ==
    (/\ hist \in {<<"parse", "export_str">>, <<"parse", "export_bytes">>}
     /\ WellFormed(origin)
     /\ origin.sample_count = Len(origin.pairs)
     /\ origin.ptext \in {<<>>, <<"2">>, <<"-", "1">>}
     /\ pdp = origin.dp
     /\ wire0 = FrameWire(origin)
     /\ hist[2] = (IF wire0.t = "str" THEN "export_str" ELSE "export_bytes"))
    => /\ ~isnull
       /\ ~threw
       /\ wire.t = wire0.t
       /\ IF wire.t = "str" THEN toUpperCase(wire.d) = toUpperCase(wire0.d)
          ELSE wire.d = wire0.d

\* C2: for every value v with double_precision = true and a finite particle
\* value, parse(export(v)), in either format, yields a value with the same
\* UR_type and the same deltas: same count, same order, same position and same
\* raw mass.  The values are those whose UR_type is set, since the wire has
\* no way to write an unset one.
C2_ExportParseKeepsDeltas ==
    (/\ hist \in {<<"export_str", "parse">>, <<"export_bytes", "parse">>}
     /\ origin = NoFrame
     /\ dv0.double_precision
     /\ dv0.UR_type.k = "fin"
     /\ dv0.particle_value.k \in {"fin", "big"}
     /\ pdp)
    => /\ ~isnull
       /\ dv.UR_type = dv0.UR_type
       /\ Len(dv.dirac_deltas) = Len(dv0.dirac_deltas)
       /\ \A i \in 1..Len(dv0.dirac_deltas) :
             /\ dv.dirac_deltas[i].position = dv0.dirac_deltas[i].position
             /\ dv.dirac_deltas[i].raw_mass = dv0.dirac_deltas[i].raw_mass

\* C3: parse returns null whenever fewer than 21 bytes follow the particle
\* field, or the UR_order field is greater than 10000, or fewer than
\* UR_order * (bytes_per_position + 8) bytes follow the 21-byte header, with
\* bytes_per_position 8 for double_precision and 4 otherwise.  The bytes after
\* the particle field and the UR_order field are those the frame was laid out
\* with.
C3_ParseRejectsShortOrLarge ==
    (/\ Last = "parse"
     /\ origin # NoFrame
     /\ wire = FrameWire(origin)
     /\ origin.defect \in {"none", "cut_one", "cut_header", "trailing",
                           "order_plus_one", "order_too_large"}
     /\ \/ Len(FrameBody(origin)) < 21
        \/ DeclaredOrder(origin) > 10000
        \/ Len(FrameBody(origin)) - 21
              < DeclaredOrder(origin) * ((IF pdp THEN 8 ELSE 4) + 8))
    => isnull

\* C3, its case: a frame cut in the middle of its last pair was parsed.
C3_Witness ==
    /\ hist = <<"parse">>
    /\ origin # NoFrame
    /\ origin.defect = "cut_one"
    /\ Len(origin.pairs) = 2
    /\ pdp = origin.dp
    /\ Len(FrameBody(origin)) >= 21
    /\ isnull

\* C4: when parse is given a Ux-string that matches the Ux pattern and has no
\* particle prefix before "Ux", the value's particle_value is null; when the
\* prefix is present, particle_value is the number the prefix writes.
C4_PrefixlessParticleIsNull ==
    (/\ hist = <<"parse">>
     /\ origin # NoFrame
     /\ WellFormed(origin)
     /\ wire.t = "str"
     /\ pdp = origin.dp)
    => /\ ~isnull
       /\ dv.particle_value =
             (IF origin.ptext = <<>> THEN Null
              ELSE IF origin.ptext = <<"i", "n", "f">> THEN PosInf
              ELSE IF origin.ptext = <<"-", "1">> THEN Fin(-1)
              ELSE Fin(2))

\* C5: every call of parse that fails (pattern mismatch, odd-length hex
\* payload, bytes input shorter than the particle field, header too short,
\* UR_order out of range, too few pair bytes) returns null and emits exactly one
\* warning line, the warnings of bytes_fromhex and struct.unpack counted.
C5_FailingParseWarnsOnce ==
    (/\ Last = "parse"
     /\ origin # NoFrame
     /\ wire = FrameWire(origin)
     /\ \/ origin.defect \in {"bad_prefix", "no_marker", "odd_hex", "short_particle",
                              "cut_header", "order_too_large", "order_plus_one"}
        \/ origin.defect = "cut_one" /\ pdp = origin.dp)
    => /\ isnull
       /\ Len(warns) = 1

\* C6: every numeric field (UR_type, sample_count, mean, UR_order, each
\* position, each raw mass, and in Ux-bytes the particle) is laid out least
\* significant byte first in Ux-bytes and most significant byte first in a
\* Ux-string.  export writes exactly the frame of the value in that order, and
\* parse reads the fields of a well-formed frame back from that order.
C6_FieldByteOrder ==
    /\ (hist \in {<<"export_str">>, <<"export_bytes">>} /\ ~threw)
       => LET f == FrameOf(dv, IF wire.t = "str" THEN "str" ELSE "bytes")
              particle == IF dv.particle_value.k = "null" THEN Fin(0)
                          ELSE dv.particle_value
              particleBytes == IF particle.k = "big" THEN BigBytes ELSE F64(particle)
              hex == HexText(f, FrameBody(f))
          IN  IF wire.t = "bytes"
              THEN wire.d = Reverse(particleBytes) \o FrameBody(f)
              ELSE /\ Len(wire.d) >= Len(hex)
                   /\ SubSeq(wire.d, Len(wire.d) - Len(hex) + 1, Len(wire.d)) = hex
    /\ (hist = <<"parse">> /\ origin # NoFrame /\ WellFormed(origin) /\ pdp = origin.dp)
       => /\ ~isnull
          /\ dv.UR_type = Fin(origin.ur_type)
          /\ dv.mean = origin.mean
          /\ SamePairs(dv, origin)
          /\ wire.t = "bytes" => dv.particle_value = ParticleDouble(origin)

\* C6, its case: a value with two deltas was exported as Ux-bytes, so that the
\* UR_order field and both pairs hold bytes that differ between the two orders.
C6_Witness ==
    /\ hist = <<"export_bytes">>
    /\ ~threw
    /\ Len(dv.dirac_deltas) = 2
    /\ dv.particle_value = Fin(2)
    /\ wire.t = "bytes"
    /\ SubSeq(wire.d, 26, 29) = <<2, 0, 0, 0>>

(***************************************************************************)
(* Properties of the normalisation operations, checked under Spec.         *)
(***************************************************************************)
\* C7: after sort, deltas consists of the finite deltas followed only by the
\* special-position deltas whose accumulated mass is positive.  A value built
\* from one finite delta and one NaN-position delta, both of positive mass, has
\* exactly two deltas after sort, the finite one and the NaN one, with the NaN
\* delta's mass the accumulated one, and export(false) of a sorted value with
\* one finite delta and mass only at NaN emits 8 + 1 + 8 + 8 + 4 + 2*(8+8) = 61
\* bytes.
C7_SortKeepsOnlyPositiveSpecials ==
    /\ hist = <<"sort">>
       => \A i \in 1..Len(dv.dirac_deltas) :
             PosClass(dv.dirac_deltas[i]) # "finite" => Positive(dv.dirac_deltas[i].mass)
    /\ (hist = <<"sort">>
        /\ dv0.dirac_deltas = <<DeltaRaw(Fin(9), Fin(2)), DeltaRaw(NaN, Fin(2))>>)
       => /\ Len(dv.dirac_deltas) = 2
          /\ dv.dirac_deltas[1].position = Fin(9)
          /\ dv.dirac_deltas[2].position = NaN
          /\ dv.dirac_deltas[2].mass = Fin(2)
          /\ dv.nan_mass = Fin(2)
    /\ (hist = <<"sort", "export_bytes">>
        /\ ~threw
        /\ Len(SelectDeltas(dv0.dirac_deltas, "finite")) = 1
        /\ Positive(dv0.nan_mass)
        /\ ~Positive(dv0.neg_inf_mass)
        /\ ~Positive(dv0.pos_inf_mass))
       => Len(wire.d) = 61

\* C8: for every value, after drop_zero_mass_positions, then sort, then cure, no
\* delta in deltas has mass 0, the deltas at NaN, -Infinity and +Infinity
\* included.
C8_NormalisedHasNoZeroMass ==
    (hist = <<"drop_zero_mass_positions", "sort", "cure">> /\ ~threw)
    => \A i \in 1..Len(dv.dirac_deltas) : dv.dirac_deltas[i].mass # Fin(0)

\* C9: for every value, one with no finite deltas or with no deltas at all
\* included, after sort and after cure the list holds at most one delta at each
\* of NaN, -Infinity and +Infinity, these are its last elements in the order
\* NaN, -Infinity, +Infinity, and every element of the list is a delta.
C9_SpecialsOnceAtTail ==
    (Last \in {"sort", "cure"} /\ ~threw)
    => LET s == dv.dirac_deltas
           rank(i) == CASE PosClass(s[i]) = "finite" -> 0
                        [] PosClass(s[i]) = "nan" -> 1
                        [] PosClass(s[i]) = "neg_inf" -> 2
                        [] PosClass(s[i]) = "pos_inf" -> 3
                        [] OTHER -> 4
       IN  /\ \A i \in 1..Len(s) : IsDelta(s[i])
           /\ \A i, j \in 1..Len(s) :
                 i < j => \/ rank(i) < rank(j)
                          \/ rank(i) = 0 /\ rank(j) = 0

\* C10: for every value with at least one finite delta, after cure the finite
\* deltas are strictly ascending in position, so that no two of them share a
\* position, and the sum of the finite masses is the same as before cure.
C10_CureStrictlyAscending ==
    (/\ Last = "cure"
     /\ ~threw
     /\ Len(SelectDeltas(dv0.dirac_deltas, "finite")) >= 1)
    => LET before == SelectDeltas(dv0.dirac_deltas, "finite")
           after == SelectDeltas(dv.dirac_deltas, "finite")
           total(s) == SumMass(s, "finite", Fin(0))
       IN  /\ \A i \in 1..(Len(after) - 1) : FLt(after[i].position, after[i + 1].position)
           /\ total(after) = total(before)

\* C11: sort, cure and drop_zero_mass_positions are each idempotent on any
\* value: a second application right after the first leaves the deltas, the
\* three special-value masses and the cached flags as the first left them.
C11_NormalisationIdempotent ==
    (/\ Len(hist) >= 2
     /\ hist[Len(hist)] = hist[Len(hist) - 1]
     /\ Last \in {"sort", "cure", "drop_zero_mass_positions"}
     /\ ~threw)
    => /\ dv.dirac_deltas = dv0.dirac_deltas
       /\ dv.nan_mass = dv0.nan_mass
       /\ dv.neg_inf_mass = dv0.neg_inf_mass
       /\ dv.pos_inf_mass = dv0.pos_inf_mass
       /\ dv.has_no_zero_mass = dv0.has_no_zero_mass
       /\ dv.is_sorted = dv0.is_sorted
       /\ dv.is_cured = dv0.is_cured

\* C11, its case: sort ran twice on a value whose first sort gathered mass at
\* NaN and appended the special deltas.
C11_Witness ==
    /\ hist = <<"sort", "sort">>
    /\ ~threw
    /\ Positive(dv.nan_mass)
    /\ Len(dv.dirac_deltas) >= 4
    /\ dv.is_sorted = "true"

\* C12: on any value, cure then sort leaves the same deltas (positions and
\* masses, in the same order) and the same special-value masses as sort then
\* cure.  Each order, as called, is compared with the other order applied to
\* the value as constructed.
C12_CureSortCommute ==
    LET same(a, b) == /\ a.dirac_deltas = b.dirac_deltas
                      /\ a.nan_mass = b.nan_mass
                      /\ a.neg_inf_mass = b.neg_inf_mass
                      /\ a.pos_inf_mass = b.pos_inf_mass
    IN  /\ (hist = <<"cure", "sort">> /\ ~threw) => same(dv, cure(sort(made).d).d)
        /\ (hist = <<"sort", "cure">> /\ ~threw) => same(dv, sort(cure(made).d).d)

\* C12, its case: cure merged deltas of a value that also holds special
\* positions, and sort was called after it.
C12_Witness ==
    /\ hist = <<"cure", "sort">>
    /\ ~threw
    /\ Len(made.dirac_deltas) = 3
    /\ Len(SelectDeltas(dv.dirac_deltas, "finite")) = 1
    /\ Len(dv.dirac_deltas) = 4

(***************************************************************************)
(* The properties a caller reads, checked under SpecQuery: values the      *)
(* caller constructs or parses, sorted or not, then read.                  *)
(***************************************************************************)
InitQuery ==
    \/ InitValue(QueryValues)
    \/ /\ origin \in QueryFrames
       /\ wire = FrameWire(origin)
       /\ dv = BlankValue
       /\ made = BlankValue
       /\ isnull = TRUE
       /\ InitCommon

NextQuery == Parse \/ Sort \/ Mean \/ Variance

SpecQuery == InitQuery /\ [][NextQuery]_vars

\* C13: for any value that holds a delta at position NaN with positive mass,
\* constructed directly or obtained from parse, sorted or not, reading mean
\* yields NaN, whatever the other deltas and whatever mean was stored earlier.
C13_NaNDeltaMakesMeanNaN ==
    (/\ Last = "mean"
     /\ ~threw
     /\ \E i \in 1..Len(dv0.dirac_deltas) :
           /\ dv0.dirac_deltas[i].position = NaN
           /\ Positive(dv0.dirac_deltas[i].mass))
    => ret = NaN

\* C14: for a value with no deltas and no mean set explicitly, reading mean
\* yields null and reading variance yields null.
C14_EmptyValueMeanAndVarianceNull ==
    /\ (hist = <<"mean">> /\ Len(made.dirac_deltas) = 0 /\ origin = NoFrame)
       => ret = Null
    /\ (hist = <<"variance">> /\ Len(made.dirac_deltas) = 0 /\ origin = NoFrame)
       => ret = Null

\* C13, as the code has it: for any value that holds a delta at position NaN
\* with positive mass and has no mean stored (none set, none taken by parse
\* from the mean field, none cached by an earlier read), reading mean yields
\* NaN, whatever the other deltas and sorted or not; a stored mean is returned
\* as it is.
C13_NaNDeltaMakesComputedMeanNaN ==
    (/\ Last = "mean"
     /\ ~threw
     /\ \E i \in 1..Len(dv0.dirac_deltas) :
           /\ dv0.dirac_deltas[i].position = NaN
           /\ Positive(dv0.dirac_deltas[i].mass))
    => /\ dv0.mean = Null => ret = NaN
       /\ dv0.mean # Null => ret = dv0.mean

\* C13, its case: the mean of a sorted value with a finite delta and mass at
\* NaN was read, with no mean stored before.
C13_Witness ==
    /\ hist = <<"sort", "mean">>
    /\ dv0.mean = Null
    /\ Positive(dv0.nan_mass)
    /\ Len(SelectDeltas(dv0.dirac_deltas, "finite")) >= 1
    /\ ret = NaN

(***************************************************************************)
(* PlotData.  The histogram arithmetic mixes divisions of sums of          *)
(* products, and what the repository states about it is stated up to a     *)
(* tolerance of 1e-12 that absorbs rounding.  The model computes it        *)
(* exactly, on rationals:                                                  *)
(*   [k |-> "rat", v |-> <<n, d>>]   the number n/d, in lowest terms, d > 0 *)
(* next to NaN and the two infinities.  Arrays of PlotData are functions   *)
(* on 0..length-1, so that the indices are those of the source.            *)
(***************************************************************************)
RECURSIVE GCD(_, _)
GCD(a, b) == IF b = 0 THEN a ELSE GCD(b, a % b)

Rat(n, d) ==
    LET g == GCD(Abs(n), Abs(d))
    IN  [k |-> "rat", v |-> <<(Sign(d) * n) \div g, Abs(d) \div g>>]

\* The number x of a DiracDelta, as PlotData computes with it.
ToRat(x) == IF x.k = "fin" THEN Rat(x.v, 1) ELSE x

RSign(x) == IF x.v[1] < 0 THEN -1 ELSE 1

RNeg(x) ==
    IF x.k = "rat" THEN Rat(-x.v[1], x.v[2])
    ELSE IF x.k = "inf" THEN [k |-> "inf", v |-> -x.v]
    ELSE NaN

RAdd(x, y) ==
    IF x.k = "rat" /\ y.k = "rat"
    THEN LET g == GCD(x.v[2], y.v[2])
         IN  Rat(x.v[1] * (y.v[2] \div g) + y.v[1] * (x.v[2] \div g),
                 (x.v[2] \div g) * y.v[2])
    ELSE IF x.k = "inf" /\ y.k = "inf" THEN (IF x.v = y.v THEN x ELSE NaN)
    ELSE IF x.k = "inf" /\ y.k = "rat" THEN x
    ELSE IF x.k = "rat" /\ y.k = "inf" THEN y
    ELSE NaN

RSub(x, y) == RAdd(x, RNeg(y))

RMul(x, y) ==
    IF x.k = "rat" /\ y.k = "rat"
    THEN LET g == GCD(Abs(x.v[1]), y.v[2])
             h == GCD(Abs(y.v[1]), x.v[2])
         IN  Rat((x.v[1] \div g) * (y.v[1] \div h), (x.v[2] \div h) * (y.v[2] \div g))
    ELSE IF x.k = "inf" /\ y.k = "inf" THEN [k |-> "inf", v |-> x.v * y.v]
    ELSE IF x.k = "inf" /\ y.k = "rat"
         THEN (IF y.v[1] = 0 THEN NaN ELSE [k |-> "inf", v |-> x.v * RSign(y)])
    ELSE IF x.k = "rat" /\ y.k = "inf"
         THEN (IF x.v[1] = 0 THEN NaN ELSE [k |-> "inf", v |-> y.v * RSign(x)])
    ELSE NaN

RDiv(x, y) ==
    IF x.k = "rat" /\ y.k = "rat"
    THEN (IF y.v[1] = 0
          THEN (IF x.v[1] = 0 THEN NaN ELSE [k |-> "inf", v |-> RSign(x)])
          ELSE RMul(x, Rat(y.v[2], y.v[1])))
    ELSE IF x.k = "inf" /\ y.k = "rat" THEN [k |-> "inf", v |-> x.v * RSign(y)]
    ELSE IF x.k = "rat" /\ y.k = "inf" THEN Rat(0, 1)
    ELSE NaN

\* x < y: false when either side is NaN or undefined.
RLt(x, y) ==
    IF x.k = "rat" /\ y.k = "rat"
    THEN LET g == GCD(x.v[2], y.v[2])
         IN  x.v[1] * (y.v[2] \div g) < y.v[1] * (x.v[2] \div g)
    ELSE IF x.k = "inf" /\ y.k = "rat" THEN x.v < 0
    ELSE IF x.k = "rat" /\ y.k = "inf" THEN y.v > 0
    ELSE IF x.k = "inf" /\ y.k = "inf" THEN x.v < y.v
    ELSE FALSE

RGt(x, y) == RLt(y, x)

\* x === y on numbers.
REq(x, y) == x.k \in {"rat", "inf"} /\ x = y

RLe(x, y) == RLt(x, y) \/ REq(x, y)

RGe(x, y) == RLe(y, x)

\* isNaN(x): undefined converts to NaN.
isNaN(x) == x.k \notin {"rat", "inf"}

\* isFinite(x).
isFinite(x) == x.k = "rat"

\* Math.sqrt at the arguments the model can answer exactly: an infinity or
\* NaN.  The square root of a rational is asked for by no reachable
\* evaluation (see _handle_extremal_bins), and has no value here.
MathSqrt(x) ==
    IF x.k = "inf" THEN (IF x.v > 0 THEN x ELSE NaN)
    ELSE IF x.k = "rat" THEN CHOOSE r \in {} : REq(RMul(r, r), x)
    ELSE NaN

R0 == Rat(0, 1)

\* Array(n).fill(x).
ArrayFill(n, x) == [i \in 0..(n - 1) |-> x]

ALen(a) == Cardinality(DOMAIN a)

\* a[i], undefined outside the array.
At(a, i) == IF i \in DOMAIN a THEN a[i] ELSE Undefined

\* An index argument of slice: a negative one counts from the end of the
\* array, and the result is kept within 0..n.
SliceIndex(n, at) ==
    LET r == IF at < 0 THEN n + at ELSE at
    IN  IF r < 0 THEN 0 ELSE IF r > n THEN n ELSE r

\* Array.prototype.slice(start, end).
ArraySlice(a, start, end) ==
    LET s == SliceIndex(ALen(a), start)
        e == SliceIndex(ALen(a), end)
    IN  [i \in 0..(e - s - 1) |-> a[s + i]]

\* [...a, ...b].
ArrayConcat(a, b) ==
    [i \in 0..(ALen(a) + ALen(b) - 1) |-> IF i < ALen(a) THEN a[i] ELSE b[i - ALen(a)]]

\* The delta new DiracDelta({position, mass}) of PlotData.
PlotDelta(position, mass) == [position |-> position, raw_mass |-> mass, mass |-> mass]

\* The deltas of a value, as the numbers PlotData reads from them.
PlotDeltas(s) ==
    [i \in 1..Len(s) |-> PlotDelta(ToRat(s[i].position), ToRat(s[i].mass))]

\* (p1 * x1 + p2 * x2) / (p1 + p2)
WeightedPosition(p1, x1, p2, x2) ==
    RDiv(RAdd(RMul(p1, x1), RMul(p2, x2)), RAdd(p1, p2))

\* One level n of the TTR coalescence of _determine_boundary_positions: the
\* slots 2^(n+1), 2^(n+1) + 2^(n+2), ... below number_of_boundaries - 1.
RECURSIVE boundaryLevels(_, _, _)
boundaryLevels(b, n, exponent) ==
    IF n >= exponent THEN b
    ELSE LET step == 2 ^ n
             nb == ALen(b.positions)
             hit(i) == i >= 2 ^ (n + 1) /\ i < nb - 1
                       /\ (i - 2 ^ (n + 1)) % (2 ^ (n + 2)) = 0
             prob(i) == RAdd(At(b.probabilities, i - step), At(b.probabilities, i + step))
             pos(i) == RDiv(RAdd(RMul(At(b.probabilities, i - step),
                                      At(b.positions, i - step)),
                                 RMul(At(b.probabilities, i + step),
                                      At(b.positions, i + step))),
                            prob(i))
         IN  boundaryLevels(
                 [positions |-> [i \in DOMAIN b.positions |->
                                    IF hit(i) THEN pos(i) ELSE b.positions[i]],
                  probabilities |-> [i \in DOMAIN b.probabilities |->
                                    IF hit(i) THEN prob(i) ELSE b.probabilities[i]]],
                 n + 1, exponent)

\* _determine_boundary_positions(finite_sorted_dirac_deltas, exponent,
\* use_ttr_binning).  The deltas are a sequence: delta i of the source is
\* element i + 1.
determine_boundary_positions(finite_sorted_dirac_deltas, exponent, use_ttr_binning) ==
    LET number_of_finite_dirac_deltas == Len(finite_sorted_dirac_deltas)
        number_of_boundaries == 2 * number_of_finite_dirac_deltas + 1
        filled ==
            [positions |->
                [i \in 0..(number_of_boundaries - 1) |->
                    IF i % 2 = 1 THEN finite_sorted_dirac_deltas[(i - 1) \div 2 + 1].position
                    ELSE NaN],
             probabilities |->
                [i \in 0..(number_of_boundaries - 1) |->
                    IF i % 2 = 1 THEN finite_sorted_dirac_deltas[(i - 1) \div 2 + 1].mass
                    ELSE NaN]]
        swept(i) == i >= 2 /\ i < number_of_boundaries - 1 /\ i % 2 = 0
        adjacent(b, i) ==
            WeightedPosition(b.probabilities[i - 1], b.positions[i - 1],
                             b.probabilities[i + 1], b.positions[i + 1])
        levelled == boundaryLevels(filled, 0, exponent)
    IN  IF ~use_ttr_binning
        THEN [filled EXCEPT !.positions =
                [i \in DOMAIN filled.positions |->
                    IF swept(i) /\ isNaN(filled.positions[i]) THEN adjacent(filled, i)
                    ELSE filled.positions[i]]]
        ELSE [levelled EXCEPT !.positions =
                [i \in DOMAIN levelled.positions |->
                    IF swept(i) /\ (\/ isNaN(levelled.positions[i])
                                    \/ RLe(levelled.positions[i], levelled.positions[i - 1])
                                    \/ RGe(levelled.positions[i], levelled.positions[i + 1]))
                    THEN adjacent(levelled, i)
                    ELSE levelled.positions[i]]]

\* _handle_extremal_bins(finite_sorted_dirac_deltas, boundary_positions,
\* boundary_probabilities, bin_widths, bin_heights, left).  The root w0 is
\* read only when det is an infinity: for every finite or NaN det the
\* condition of line 307 takes the d/dx = 0 branch.
handle_extremal_bins(finite_sorted_dirac_deltas, boundary_positions, boundary_probabilities, bin_widths0, bin_heights0, left) ==
    LET np == ALen(boundary_positions)
        nq == ALen(boundary_probabilities)
        nw == ALen(bin_widths0)
        nh == ALen(bin_heights0)
        nd == Len(finite_sorted_dirac_deltas)
        long == nd >= 6
        p0 == At(boundary_probabilities, IF left THEN 1 ELSE nq - 2)
        w1 == At(bin_widths0, IF left THEN 1 ELSE nw - 2)
        w2 == At(bin_widths0, IF left THEN 2 ELSE nw - 3)
        d2 == At(bin_heights0, IF left THEN 2 ELSE nh - 3)
        edge == IF left THEN 0 ELSE np - 1
        sgn == IF left THEN Rat(-1, 1) ELSE Rat(1, 1)
        outer == IF left THEN 0 ELSE nw - 1
        inner == IF left THEN 1 ELSE nw - 2
        \* The heights of the two extremal bins, from their average height.
        heights(positions, bin_widths, averageHeight) ==
            [boundary_positions |-> positions,
             bin_widths |-> bin_widths,
             bin_heights |->
                [bin_heights0 EXCEPT
                    ![IF left THEN 0 ELSE nh - 1] =
                        RDiv(RMul(averageHeight, bin_widths[inner]), bin_widths[outer]),
                    ![IF left THEN 1 ELSE nh - 2] =
                        RDiv(RMul(averageHeight, bin_widths[outer]), bin_widths[inner])]]
        widths(positions, bin_widths) ==
            heights(positions, bin_widths,
                    RDiv(finite_sorted_dirac_deltas[IF left THEN 1 ELSE nd].mass,
                         RAdd(bin_widths[outer], bin_widths[inner])))
        \* The edge is placed; the width of the outermost bin follows.
        placed(positions) ==
            widths(positions,
                   [bin_widths0 EXCEPT ![outer] =
                       RSub(At(positions, IF left THEN 1 ELSE np - 1),
                            At(positions, IF left THEN 0 ELSE np - 2))])
        rooted(det, root1, root2) ==
            LET w0 == IF long /\ RGe(det, R0)
                      THEN (IF RGt(root1, R0) /\ RGt(root2, R0)
                            THEN (IF RLt(root2, root1) THEN root2 ELSE root1)
                            ELSE IF RGt(root1, R0) \/ RGt(root2, R0)
                            THEN (IF isNaN(root1) \/ isNaN(root2) THEN NaN
                                  ELSE IF RGt(root2, root1) THEN root2 ELSE root1)
                            ELSE Null)
                      ELSE Null
                flat == isFinite(det) \/ isNaN(det) \/ w0 = Null
                edge_position ==
                    IF flat
                    THEN RAdd(At(boundary_positions, IF left THEN 1 ELSE np - 2),
                              RMul(sgn, RSub(At(boundary_positions,
                                                IF left THEN 2 ELSE np - 2),
                                             At(boundary_positions,
                                                IF left THEN 1 ELSE np - 3))))
                    ELSE RAdd(At(boundary_positions, IF left THEN 1 ELSE np - 2),
                              RMul(sgn, w0))
            IN  placed([boundary_positions EXCEPT ![edge] = edge_position])
        discriminant(a, b, det) ==
            rooted(det,
                   RDiv(RAdd(RNeg(b), MathSqrt(det)), RMul(Rat(2, 1), a)),
                   RDiv(RSub(RNeg(b), MathSqrt(det)), RMul(Rat(2, 1), a)))
        quadratic(a, b, c) ==
            discriminant(a, b,
                         IF long THEN RSub(RMul(b, b), RMul(RMul(Rat(4, 1), a), c))
                         ELSE NaN)
        coefficients(a) ==
            quadratic(a, RSub(RMul(a, w1), RMul(p0, w2)),
                      RMul(RMul(p0, w1), RAdd(w1, w2)))
    IN  coefficients(RSub(RMul(d2, w1), p0))

\* The second call of _handle_extremal_bins in _get_binning, on the arrays
\* the first call returned.
handle_right_extremal_bins(finite_sorted_dirac_deltas, lo, boundary_probabilities) ==
    handle_extremal_bins(finite_sorted_dirac_deltas, lo.boundary_positions,
                         boundary_probabilities, lo.bin_widths, lo.bin_heights, FALSE)

\* averageHeight * bin_widths[other] / bin_widths[own]: the height of one bin
\* of the pair of a delta; before it, the average height itself.
binHeightAverage(averageHeight, own_width, other_width) == averageHeight

binHeight(averageHeight, own_width, other_width) ==
    RDiv(RMul(averageHeight, other_width), own_width)

\* _get_binning(finite_sorted_dirac_deltas, boundary_positions,
\* boundary_probabilities).
get_binningLeftOnly(finite_sorted_dirac_deltas, boundary_positions, boundary_probabilities) ==
    LET number_of_finite_dirac_deltas == Len(finite_sorted_dirac_deltas)
        numberOfBins == 2 * number_of_finite_dirac_deltas
        bin_widths ==
            [i \in 0..(numberOfBins - 1) |->
                IF i >= 1 /\ i < numberOfBins - 1
                THEN RSub(boundary_positions[i + 1], boundary_positions[i])
                ELSE NaN]
        inside(j) == j \div 2 >= 1 /\ j \div 2 < number_of_finite_dirac_deltas - 1
        averageHeight(i) ==
            RDiv(finite_sorted_dirac_deltas[i + 1].mass,
                 RAdd(bin_widths[2 * i], bin_widths[2 * i + 1]))
        bin_heights ==
            [j \in 0..(numberOfBins - 1) |->
                IF ~inside(j) THEN NaN
                ELSE IF j % 2 = 0
                THEN binHeight(averageHeight(j \div 2), bin_widths[j], bin_widths[j + 1])
                ELSE binHeight(averageHeight(j \div 2), bin_widths[j], bin_widths[j - 1])]
    IN  handle_extremal_bins(finite_sorted_dirac_deltas, boundary_positions,
                             boundary_probabilities, bin_widths, bin_heights, TRUE)

get_binning(finite_sorted_dirac_deltas, boundary_positions, boundary_probabilities) ==
    LET number_of_finite_dirac_deltas == Len(finite_sorted_dirac_deltas)
        numberOfBins == 2 * number_of_finite_dirac_deltas
        bin_widths ==
            [i \in 0..(numberOfBins - 1) |->
                IF i >= 1 /\ i < numberOfBins - 1
                THEN RSub(boundary_positions[i + 1], boundary_positions[i])
                ELSE NaN]
        inside(j) == j \div 2 >= 1 /\ j \div 2 < number_of_finite_dirac_deltas - 1
        averageHeight(i) ==
            RDiv(finite_sorted_dirac_deltas[i + 1].mass,
                 RAdd(bin_widths[2 * i], bin_widths[2 * i + 1]))
        bin_heights ==
            [j \in 0..(numberOfBins - 1) |->
                IF ~inside(j) THEN NaN
                ELSE IF j % 2 = 0
                THEN binHeight(averageHeight(j \div 2), bin_widths[j], bin_widths[j + 1])
                ELSE binHeight(averageHeight(j \div 2), bin_widths[j], bin_widths[j - 1])]
    IN  handle_right_extremal_bins(
            finite_sorted_dirac_deltas,
            handle_extremal_bins(finite_sorted_dirac_deltas, boundary_positions,
                                 boundary_probabilities, bin_widths, bin_heights, TRUE),
            boundary_probabilities)

\* _create_binning(finite_sorted_dirac_deltas, exponent, use_ttr_binning).
create_binningAdjacent(finite_sorted_dirac_deltas, exponent, use_ttr_binning) ==
    LET b == determine_boundary_positions(finite_sorted_dirac_deltas, exponent, FALSE)
    IN  get_binning(finite_sorted_dirac_deltas, b.positions, b.probabilities)

create_binning(finite_sorted_dirac_deltas, exponent, use_ttr_binning) ==
    LET b == determine_boundary_positions(finite_sorted_dirac_deltas, exponent,
                                          use_ttr_binning)
    IN  get_binning(finite_sorted_dirac_deltas, b.positions, b.probabilities)

\* The sums of _bin_pdf_expected_dirac_delta over the bins i, i + 1, ...
RECURSIVE binSums(_, _, _, _, _)
binSums(boundary_positions, bin_widths, bin_heights, i, acc) ==
    IF i >= ALen(bin_widths) THEN acc
    ELSE LET probability == RMul(bin_widths[i], At(bin_heights, i))
         IN  binSums(boundary_positions, bin_widths, bin_heights, i + 1,
                     [probability_sum |-> RAdd(acc.probability_sum, probability),
                      moment_sum |->
                          RAdd(acc.moment_sum,
                               RDiv(RMul(probability,
                                         RAdd(At(boundary_positions, i + 1),
                                              At(boundary_positions, i))),
                                    Rat(2, 1)))])

\* _bin_pdf_expected_dirac_delta(boundary_positions, bin_widths, bin_heights).
bin_pdf_expected_dirac_delta(boundary_positions, bin_widths, bin_heights) ==
    LET s == binSums(boundary_positions, bin_widths, bin_heights, 0,
                     [probability_sum |-> R0, moment_sum |-> R0])
    IN  PlotDelta(RDiv(s.moment_sum, s.probability_sum), s.probability_sum)

\* _bin_pdf_to_ttr(boundary_positions, bin_widths, bin_heights, order): the
\* histogram is cut at the first boundary that equals or exceeds the expected
\* position; with no such boundary both halves stay empty.
RECURSIVE bin_pdf_to_ttr(_, _, _, _)
bin_pdf_to_ttr(boundary_positions, bin_widths, bin_heights, order) ==
    LET expected_dirac_delta ==
            bin_pdf_expected_dirac_delta(boundary_positions, bin_widths, bin_heights)
        empty == ArrayFill(0, NaN)
        halves(e, cuts, i) ==
            IF cuts = {}
            THEN [lp |-> empty, lw |-> empty, lh |-> empty,
                  hp |-> empty, hw |-> empty, hh |-> empty]
            ELSE IF REq(boundary_positions[i], e)
            THEN [lp |-> ArraySlice(boundary_positions, 0, i + 1),
                  lw |-> ArraySlice(bin_widths, 0, i),
                  lh |-> ArraySlice(bin_heights, 0, i),
                  hp |-> ArraySlice(boundary_positions, i, ALen(boundary_positions)),
                  hw |-> ArraySlice(bin_widths, i, ALen(bin_widths)),
                  hh |-> ArraySlice(bin_heights, i, ALen(bin_heights))]
            ELSE [lp |-> ArrayConcat(ArraySlice(boundary_positions, 0, i),
                                     ArrayFill(1, e)),
                  lw |-> ArrayConcat(ArraySlice(bin_widths, 0, i - 1),
                                     ArrayFill(1, RSub(e, At(boundary_positions, i - 1)))),
                  lh |-> ArraySlice(bin_heights, 0, i),
                  hp |-> ArrayConcat(ArrayFill(1, e),
                                     ArraySlice(boundary_positions, i,
                                                ALen(boundary_positions))),
                  hw |-> ArrayConcat(ArrayFill(1, RSub(boundary_positions[i], e)),
                                     ArraySlice(bin_widths, i, ALen(bin_widths))),
                  hh |-> ArraySlice(bin_heights, i - 1, ALen(bin_heights))]
        cut(e, cuts) == halves(e, cuts, CHOOSE c \in cuts : \A o \in cuts : c <= o)
        cutAt(e) ==
            cut(e, {j \in DOMAIN boundary_positions :
                       REq(boundary_positions[j], e) \/ RGt(boundary_positions[j], e)})
        split(h) == bin_pdf_to_ttr(h.lp, h.lw, h.lh, order - 1)
                    \o bin_pdf_to_ttr(h.hp, h.hw, h.hh, order - 1)
    IN  IF order = 0 THEN <<expected_dirac_delta>>
        ELSE split(cutAt(expected_dirac_delta.position))

\* this.dist.UR_type != "MonteCarlo": UR_type is a number or null, which is
\* never loosely equal to that string.
UR_typeIsNotMonteCarlo(d) == TRUE

\* The default arguments of combine_dirac_deltas, 1e-14 and 1e-12.  Both are
\* below the resolution of the model's doubles: the product with any of their
\* magnitudes rounds to zero, as 1e-6 does.
DefaultThreshold == [num |-> 1, den |-> 1000000]

\* Math.floor(Math.log2(n)) for an integer n >= 1.
FloorLog2(n) == BitLen(n) - 1

\* The fields of a PlotData before _construct_plot_data.
NewPlotData(plotting_resolution) ==
    [plotting_resolution |-> plotting_resolution,
     plotting_ttr_order |-> Null,
     positions |-> ArrayFill(0, NaN),
     masses |-> ArrayFill(0, NaN)]

\* The outcome of a PlotData construction: the value as it is left, the
\* object (when no error is thrown), the warnings, and the error thrown.
PlotOutcome(d, plot, ws, error) ==
    [d |-> d, plot |-> plot, warns |-> ws, threw |-> error # "", error |-> error]

\* _bin_pdf_to_ttr on the arrays of the histogram binning.
ttrOfBinning(binning, order) ==
    bin_pdf_to_ttr(binning.boundary_positions, binning.bin_widths, binning.bin_heights,
                   order)

\* this.positions and this.masses, set from the histogram binning.
plotOfBinning(plot, binning) ==
    [plot EXCEPT !.positions = binning.boundary_positions,
                 !.masses = binning.bin_heights]

\* Math.floor(this.plotting_resolution === null ? machine_representation * 2
\* : Math.min(machine_representation * 2, this.plotting_resolution)), for an
\* integer or null plotting_resolution.
resolutionUnclamped(requested, machine_representation) == machine_representation * 2

resolution(requested, machine_representation) ==
    IF requested.k = "null" THEN machine_representation * 2
    ELSE IF machine_representation * 2 < requested.v THEN machine_representation * 2
    ELSE requested.v

\* this.plotting_resolution > 2
\* && this.plotting_resolution > 2 ** (this.plotting_ttr_order + 1)
resolutionIsRejected(plotting_resolution, plotting_ttr_order) ==
    plotting_resolution > 2 /\ plotting_resolution > 2 ^ (plotting_ttr_order + 1)

\* The tail of _construct_plot_data, from the plot resolution on.  With an
\* order below zero _bin_pdf_to_ttr never meets order === 0 and recurses until
\* the stack is exhausted.
plotHistogram(d, plot, finite, ws) ==
    LET machine_representation == 2 ^ FloorLog2(UR_order(d))
        plotting_resolution == resolution(plot.plotting_resolution, machine_representation)
        plotting_ttr_order == FloorLog2(plotting_resolution) - 1
        sized == [plot EXCEPT !.plotting_resolution = Fin(plotting_resolution),
                              !.plotting_ttr_order = Fin(plotting_ttr_order)]
    IN  IF resolutionIsRejected(plotting_resolution, plotting_ttr_order)
        THEN PlotOutcome(d, sized, ws, "EvalError")
        ELSE IF plotting_ttr_order < 0
        THEN PlotOutcome(d, sized, ws, "RangeError")
        ELSE PlotOutcome(
                 d,
                 plotOfBinning(
                     sized,
                     create_binning(ttrOfBinning(create_binning(finite, 0, FALSE),
                                                 plotting_ttr_order),
                                    plotting_ttr_order, TRUE)),
                 ws, "")

\* _construct_plot_data from the length test of the finite deltas on.
plotFinite(d, plot, finite, ws) ==
    IF Len(finite) = 0
    THEN PlotOutcome(d, plot, Append(ws, "No Dirac Deltas found."), "")
    ELSE IF Len(finite) = 1
    THEN PlotOutcome(d, [plot EXCEPT !.positions = ArrayFill(1, finite[1].position),
                                     !.masses = ArrayFill(1, finite[1].mass)],
                     ws, "")
    ELSE plotHistogram(d, plot, finite, ws)

\* _construct_plot_data from combine_dirac_deltas on: combined is what
\* combine_dirac_deltas left, ws the warnings before it.
plotCombined(plot, combined, ws) ==
    IF combined.threw
    THEN PlotOutcome(combined.d, plot, ws \o combined.warns, "TypeError")
    ELSE LET f == finite_dirac_deltas(combined.d)
         IN  plotFinite(f.d, plot, PlotDeltas(f.val), ws \o combined.warns \o f.warns)

\* _construct_plot_data() of a PlotData on the value d.
construct_plot_data(d, plot) ==
    LET dropped == IF UR_typeIsNotMonteCarlo(d) THEN drop_zero_mass_positions(d)
                   ELSE [d |-> d, warns |-> <<>>, threw |-> FALSE]
    IN  IF dropped.threw THEN PlotOutcome(dropped.d, plot, dropped.warns, "TypeError")
        ELSE plotCombined(plot,
                          combine_dirac_deltas(dropped.d, DefaultThreshold,
                                               DefaultThreshold),
                          dropped.warns)

\* new PlotData(dist, plotting_resolution), for an integer plotting_resolution;
\* zero counts as the argument left out.
PlotData(dist, plotting_resolution) ==
    LET d == mean(dist)
        plot == NewPlotData(IF plotting_resolution = 0 THEN Null
                            ELSE Fin(plotting_resolution))
    IN  IF d.mean = Null \/ UR_order(d) = 0
        THEN PlotOutcome(d, plot, <<>>, "EvalError")
        ELSE construct_plot_data(d, plot)

(***************************************************************************)
(* Plotting a value: new PlotData(dist, plotting_resolution), on a value   *)
(* the caller constructed and may have normalised.                         *)
(***************************************************************************)
MaxResolution == 5

\* new PlotData(dv, plotting_resolution); 0 stands for the argument left out.
\* ret is the object, or the error thrown.
Construct ==
    /\ ~isnull
    /\ \E plotting_resolution \in 0..MaxResolution :
          \E r \in {PlotData(dv, plotting_resolution)} :
              /\ StepWith("PlotData", <<plotting_resolution>>)
              /\ dv' = r.d
              /\ ret' = IF r.threw THEN [k |-> "error", v |-> r.error]
                        ELSE [k |-> "plot", v |-> r.plot]
              /\ warns' = r.warns
              /\ threw' = r.threw
              /\ UNCHANGED <<isnull, wire, origin, pdp>>

InitPlot == InitValue(NormValues)

NextPlot == Sort \/ DropZeroMass \/ Construct

SpecPlot == InitPlot /\ [][NextPlot]_vars

\* No delta of the value d is finite with positive mass.
NoFiniteDelta(d) ==
    \A i \in 1..Len(d.dirac_deltas) :
        ~(PosClass(d.dirac_deltas[i]) = "finite" /\ Positive(d.dirac_deltas[i].mass))

\* C15: constructing a PlotData on a value that has deltas, none of them
\* finite with positive mass, does not raise: it warns "No Dirac Deltas
\* found." and leaves positions and masses empty.
C15_EmptyPlotWarnsAndReturns ==
    (Last = "PlotData" /\ UR_order(dv0) >= 1 /\ NoFiniteDelta(dv0))
        => /\ ~threw
           /\ ret.k = "plot"
           /\ ALen(ret.v.positions) = 0
           /\ ALen(ret.v.masses) = 0
           /\ \E i \in 1..Len(warns) : warns[i] = "No Dirac Deltas found."

(***************************************************************************)
(* The binning functions of PlotData on their own: _create_binning on a    *)
(* list of finite deltas in ascending order with positive masses, and      *)
(* _bin_pdf_to_ttr on the histogram it returns.                            *)
(***************************************************************************)
BinPositions == 6

MaxExponent == 3

\* The deltas at the positions p with mass(p) > 0, in ascending order.
RECURSIVE DeltasFrom(_, _)
DeltasFrom(mass, p) ==
    IF p > BinPositions THEN <<>>
    ELSE (IF mass[p] > 0 THEN <<DeltaRaw(Fin(p), Fin(mass[p]))>> ELSE <<>>)
         \o DeltasFrom(mass, p + 1)

\* Values whose deltas are finite, strictly ascending and of positive mass.
BinningValues ==
    {NewValue(Null, Fin(0), DeltasFrom(mass, 1), TRUE) :
        mass \in [1..BinPositions -> {0, 1, 2}]}

\* The sums of mass and of position * mass over a list of PlotData deltas.
RECURSIVE ListSums(_, _)
ListSums(s, acc) ==
    IF Len(s) = 0 THEN acc
    ELSE ListSums(Tail(s),
                  [mass |-> RAdd(acc.mass, Head(s).mass),
                   moment |-> RAdd(acc.moment, RMul(Head(s).position, Head(s).mass))])

\* The position a list of deltas coalesces to: its mass-weighted mean.
CoalescedPosition(s) ==
    LET t == ListSums(s, [mass |-> R0, moment |-> R0]) IN RDiv(t.moment, t.mass)

\* The list is a full valid TTR: one delta, or two halves that are full valid
\* TTRs with the position the whole coalesces to strictly between them.
RECURSIVE ValidTTR(_)
ValidTTR(s) ==
    \/ Len(s) = 1
    \/ /\ Len(s) > 1
       /\ Len(s) % 2 = 0
       /\ LET h == Len(s) \div 2
              low == SubSeq(s, 1, h)
              high == SubSeq(s, h + 1, Len(s))
          IN  /\ RLt(low[h].position, CoalescedPosition(s))
              /\ RLt(CoalescedPosition(s), high[1].position)
              /\ ValidTTR(low)
              /\ ValidTTR(high)

\* PlotData._create_binning(the deltas of dv, exponent, use_ttr_binning); ret
\* is the histogram, with the arguments it was made from.
CreateBinning ==
    /\ Len(dv.dirac_deltas) >= 1
    /\ ret.k = "null"
    /\ \E exponent \in 0..MaxExponent, use_ttr_binning \in BOOLEAN :
          \E deltas \in {PlotDeltas(dv.dirac_deltas)} :
          \E b \in {create_binning(deltas, exponent, use_ttr_binning)} :
              /\ Step("_create_binning")
              /\ ret' = [k |-> "binning",
                         v |-> [boundary_positions |-> b.boundary_positions,
                                bin_widths |-> b.bin_widths,
                                bin_heights |-> b.bin_heights,
                                deltas |-> deltas,
                                exponent |-> exponent,
                                use_ttr_binning |-> use_ttr_binning]]
              /\ warns' = <<>>
              /\ threw' = FALSE
              /\ UNCHANGED <<dv, isnull, wire, origin, pdp>>

\* PlotData._bin_pdf_to_ttr(the histogram at hand, order); ret is the list
\* of deltas, with the histogram and the order it was made from.  As in
\* _construct_plot_data, the TTR asked for has no more deltas than the list
\* the histogram was made from.  An order above 1 is asked of the histogram
\* of a full valid TTR of that order only, which keeps the rationals within
\* the integers of TLC.
BinPdfToTtr ==
    /\ ret.k = "binning"
    /\ \E order \in 0..MaxExponent :
          /\ 2 ^ order <= Len(ret.v.deltas)
          /\ order > 1 => /\ ret.v.use_ttr_binning
                          /\ ret.v.exponent = order
                          /\ Len(ret.v.deltas) = 2 ^ order
                          /\ ValidTTR(ret.v.deltas)
          /\ Step("_bin_pdf_to_ttr")
          /\ ret' = [k |-> "ttr",
                     v |-> [ttr |-> bin_pdf_to_ttr(ret.v.boundary_positions,
                                                   ret.v.bin_widths,
                                                   ret.v.bin_heights, order),
                            order |-> order,
                            binning |-> ret.v]]
          /\ warns' = <<>>
          /\ threw' = FALSE
          /\ UNCHANGED <<dv, isnull, wire, origin, pdp>>

InitBinning == InitValue(BinningValues)

NextBinning == CreateBinning \/ BinPdfToTtr

SpecBinning == InitBinning /\ [][NextBinning]_vars

(***************************************************************************)
(* Properties of the binning functions, checked under SpecBinning.         *)
(***************************************************************************)
\* The last operation took the TTR of order k >= 1 of the histogram that
\* _create_binning made in TTR mode, with exponent k, from a full valid TTR
\* of 2^k deltas.
TTRRoundTrip ==
    /\ ret.k = "ttr"
    /\ ret.v.order >= 1
    /\ ret.v.binning.use_ttr_binning
    /\ ret.v.binning.exponent = ret.v.order
    /\ Len(ret.v.binning.deltas) = 2 ^ ret.v.order
    /\ ValidTTR(ret.v.binning.deltas)

RECURSIVE TotalProbability(_, _, _)
TotalProbability(bin_widths, bin_heights, i) ==
    IF i >= ALen(bin_widths) THEN R0
    ELSE RAdd(RMul(bin_widths[i], bin_heights[i]),
              TotalProbability(bin_widths, bin_heights, i + 1))

\* The last operation made a histogram from m >= 2 deltas.
BinnedSeveral == ret.k = "binning" /\ Len(ret.v.deltas) >= 2

C18_BoundariesStrictlyAscending ==
    ret.k = "binning"
        => \A i \in 1..(ALen(ret.v.boundary_positions) - 1) :
              RLt(ret.v.boundary_positions[i - 1], ret.v.boundary_positions[i])

(***************************************************************************)
(* is_finite and check_is_full_valid_TTR.  A check returns true, false or  *)
(* null: [k |-> "bool", v |-> TRUE or FALSE], or Null.                     *)
(***************************************************************************)
Bool(b) == [k |-> "bool", v |-> b]

\* !dd.isFinite for a delta dd: isFinite is a method of DiracDelta, and the
\* test reads it without calling it, so the negation is false.
notIsFiniteMember(dd) == FALSE

\* check_is_finite().  Reading isFinite of an undefined element throws.
check_is_finite(d) ==
    IF UR_order(d) = 0
    THEN [val |-> "null", warns |-> <<"No Dirac Deltas found.">>, threw |-> FALSE]
    ELSE IF \E i \in 1..Len(d.dirac_deltas) :
               /\ IsDelta(d.dirac_deltas[i]) /\ notIsFiniteMember(d.dirac_deltas[i])
               /\ \A j \in 1..(i - 1) : IsDelta(d.dirac_deltas[j])
    THEN [val |-> "false", warns |-> <<>>, threw |-> FALSE]
    ELSE IF HasUndefined(d) THEN [val |-> "null", warns |-> <<>>, threw |-> TRUE]
    ELSE [val |-> "true", warns |-> <<>>, threw |-> FALSE]

\* get is_finite(): fills the cache when it is null.
is_finite(d) ==
    IF d.is_finite = "null"
    THEN LET c == check_is_finite(d)
         IN  [d |-> [d EXCEPT !.is_finite = c.val], val |-> c.val,
              warns |-> c.warns, threw |-> c.threw]
    ELSE [d |-> d, val |-> d.is_finite, warns |-> <<>>, threw |-> FALSE]

\* this.UR_order & (this.UR_order - 1) !== 0 for UR_order >= 2: the comparison
\* binds tighter than &, so this is UR_order & 1.
bitTestIsNonZero(n) == n % 2 = 1

\* Math.log2(n) % 1 !== 0.
log2IsFractional(n) == 2 ^ FloorLog2(n) # n

\* The position of a derived slot: the mean of the positions xa and xb of the
\* two slots it joins, weighted by their probabilities pa and pb; p is pa + pb.
weightedMeanUnweighted(pa, xa, pb, xb, p) == FDiv(FAdd(xa, xb), Fin(2))

weightedMean(pa, xa, pb, xb, p) == FDiv(FAdd(FMul(pa, xa), FMul(pb, xb)), p)

\* The level loop of check_is_full_valid_TTR from level n on: the slots
\* 2^(n+1) - 1, 2^(n+1) - 1 + 2^(n+2), ... below number_of_boundaries.
RECURSIVE coalesceLevels(_, _, _)
coalesceLevels(b, n, ttr_order) ==
    IF n >= ttr_order THEN b
    ELSE LET step == 2 ^ n
             hit(i) == i >= 2 ^ (n + 1) - 1
                       /\ (i - (2 ^ (n + 1) - 1)) % (2 ^ (n + 2)) = 0
             prob(i) == FAdd(At(b.probabilities, i - step), At(b.probabilities, i + step))
             pos(i) == weightedMean(At(b.probabilities, i - step),
                                    At(b.positions, i - step),
                                    At(b.probabilities, i + step),
                                    At(b.positions, i + step), prob(i))
         IN  coalesceLevels(
                 [positions |-> [i \in DOMAIN b.positions |->
                                    IF hit(i) THEN pos(i) ELSE b.positions[i]],
                  probabilities |-> [i \in DOMAIN b.probabilities |->
                                    IF hit(i) THEN prob(i) ELSE b.probabilities[i]]],
                 n + 1, ttr_order)

\* The tail of check_is_full_valid_TTR, for UR_order >= 2 a power of two: the
\* coalescence over 2 * UR_order - 1 slots and the test of its order.
coalescenceAscends(d) ==
    LET number_of_boundaries == 2 * UR_order(d) - 1
        filled ==
            [positions |->
                [i \in 0..(number_of_boundaries - 1) |->
                    IF i % 2 = 0 THEN d.dirac_deltas[i \div 2 + 1].position ELSE NaN],
             probabilities |->
                [i \in 0..(number_of_boundaries - 1) |->
                    IF i % 2 = 0 THEN d.dirac_deltas[i \div 2 + 1].mass ELSE NaN]]
        boundary_positions == coalesceLevels(filled, 0, FloorLog2(UR_order(d))).positions
    IN  \A i \in 1..(number_of_boundaries - 1) :
            FLt(boundary_positions[i - 1], boundary_positions[i])

\* check_is_full_valid_TTR(): the value as it is left, what is returned, the
\* warnings, and whether a TypeError was thrown.
check_is_full_valid_TTR(d) ==
    LET dropped == drop_zero_mass_positions(d)
        out(v, val, w, t) == [d |-> v, val |-> val, warns |-> w, threw |-> t]
        checked(f, ws) ==
            IF f.threw THEN out(f.d, Null, ws, TRUE)
            ELSE IF f.val # "true" THEN out(f.d, Bool(FALSE), ws, FALSE)
            ELSE IF UR_order(f.d) = 0
            THEN out(f.d, Null, Append(ws, "No Dirac Deltas found."), FALSE)
            ELSE IF UR_order(f.d) = 1 THEN out(f.d, Bool(TRUE), ws, FALSE)
            ELSE IF bitTestIsNonZero(UR_order(f.d)) THEN out(f.d, Bool(FALSE), ws, FALSE)
            ELSE IF log2IsFractional(UR_order(f.d)) THEN out(f.d, Bool(FALSE), ws, FALSE)
            ELSE out(f.d, Bool(coalescenceAscends(f.d)), ws, FALSE)
        finite(cured, f) == checked(f, dropped.warns \o cured.warns \o f.warns)
        normalised(cured) ==
            IF cured.threw
            THEN out(cured.d, Null, dropped.warns \o cured.warns, TRUE)
            ELSE finite(cured, is_finite(cured.d))
    IN  IF dropped.threw THEN out(dropped.d, Null, dropped.warns, TRUE)
        ELSE normalised(cure(dropped.d))

(***************************************************************************)
(* Checking a value for a full valid TTR, before or after a cure.          *)
(***************************************************************************)
TTRPositions == 6

\* The deltas at the odd positions 2p - 1 with mass(p) > 0, in ascending
\* order: the derived slots of the coalescence have room between them.
RECURSIVE OddDeltasFrom(_, _)
OddDeltasFrom(mass, p) ==
    IF p > TTRPositions THEN <<>>
    ELSE (IF mass[p] > 0 THEN <<DeltaRaw(Fin(2 * p - 1), Fin(mass[p]))>> ELSE <<>>)
         \o OddDeltasFrom(mass, p + 1)

\* Values of finite deltas, alone or followed by one more delta: at NaN or an
\* infinity with positive mass, or finite with zero mass.
TTRValues ==
    {NewValue(Null, Fin(0), OddDeltasFrom(mass, 1) \o extra, TRUE) :
        mass \in [1..TTRPositions -> {0, 1, 2}],
        extra \in {<<>>, <<DeltaRaw(NaN, Fin(2))>>, <<DeltaRaw(NegInf, Fin(1))>>,
                   <<DeltaRaw(PosInf, Fin(2))>>, <<DeltaRaw(Fin(3), Fin(0))>>}}

\* check_is_full_valid_TTR() on the value at hand; ret is what it returns.
CheckIsFullValidTTR ==
    /\ ~isnull
    /\ \E r \in {check_is_full_valid_TTR(dv)} :
           /\ Step("check_is_full_valid_TTR")
           /\ dv' = r.d
           /\ ret' = r.val
           /\ warns' = r.warns
           /\ threw' = r.threw
           /\ UNCHANGED <<isnull, wire, origin, pdp>>

InitTTR == InitValue(TTRValues)

NextTTR == Cure \/ CheckIsFullValidTTR

SpecTTR == InitTTR /\ [][NextTTR]_vars

(***************************************************************************)
(* Properties of check_is_full_valid_TTR, checked under SpecTTR.           *)
(***************************************************************************)
\* The value d holds a delta at NaN or an infinity with positive mass.
HoldsNonFinite(d) ==
    \E i \in 1..Len(d.dirac_deltas) :
        /\ PosClass(d.dirac_deltas[i]) \in {"nan", "neg_inf", "pos_inf"}
        /\ Positive(d.dirac_deltas[i].mass)

\* C19: check_is_full_valid_TTR returns false for every value that holds a
\* delta at NaN, -Infinity or +Infinity with positive mass, a value of a
\* single such delta included: it returns true for all-finite values only.
C19_NonFiniteIsNoValidTTR ==
    (Last = "check_is_full_valid_TTR" /\ HoldsNonFinite(dv0))
        => (~threw /\ ret.k = "bool" /\ ret.v = FALSE)

\* The deltas of d after drop_zero_mass_positions and cure.
NormalisedDeltas(d) == cure(drop_zero_mass_positions(d).d).d.dirac_deltas

AllFinite(s) == \A i \in 1..Len(s) : PosClass(s[i]) = "finite"

PowerOfTwo(n) == \E k \in 0..n : n = 2 ^ k

\* The level of the derived (odd) slot i: the l with i + 1 an odd multiple of
\* 2^(l+1).
SlotLevel(i) == CHOOSE l \in 0..i : (i + 1) % (2 ^ (l + 1)) = 0 /\ (i + 1) % (2 ^ (l + 2)) # 0

\* Slot i of the coalescence of the deltas s: delta i/2 at an even slot, and
\* at an odd slot of level l the slots i - 2^l and i + 2^l joined, with the
\* sum of their masses at their mass-weighted mean position.
RECURSIVE Slot(_, _)
Slot(s, i) ==
    IF i % 2 = 0 THEN [position |-> s[i \div 2 + 1].position, mass |-> s[i \div 2 + 1].mass]
    ELSE LET l == SlotLevel(i)
             a == Slot(s, i - 2 ^ l)
             b == Slot(s, i + 2 ^ l)
         IN  [position |-> FDiv(FAdd(FMul(a.mass, a.position), FMul(b.mass, b.position)),
                                FAdd(a.mass, b.mass)),
              mass |-> FAdd(a.mass, b.mass)]

SlotsAscend(s) ==
    \A i \in 1..(2 * Len(s) - 2) : FLt(Slot(s, i - 1).position, Slot(s, i).position)

\* The last operation was check_is_full_valid_TTR on a value whose deltas,
\* once normalised, are all finite and at least one.
CheckedFinite ==
    /\ Last = "check_is_full_valid_TTR"
    /\ Len(NormalisedDeltas(dv0)) >= 1
    /\ AllFinite(NormalisedDeltas(dv0))

\* C20: on a value whose n >= 1 deltas after drop-zero and cure are all
\* finite, check_is_full_valid_TTR returns true if n is a power of two and
\* the coalescence over 2n - 1 slots is strictly ascending, and false
\* otherwise: false for every n that is no power of two, odd or even.
C20_ValidTTRIsPowerOfTwoAndAscending ==
    CheckedFinite
        => LET s == NormalisedDeltas(dv0)
           IN  /\ ~threw
               /\ ret = Bool(PowerOfTwo(Len(s)) /\ SlotsAscend(s))

\* A full valid TTR of four deltas was found, and so checked two levels.
C20_Witness ==
    /\ CheckedFinite
    /\ Len(NormalisedDeltas(dv0)) = 4
    /\ ret = Bool(TRUE)

(***************************************************************************)
(* Normalising a value with combine_dirac_deltas among the operations: a   *)
(* caller's value, then drop_zero_mass_positions, sort, cure and           *)
(* combine_dirac_deltas with thresholds of its choosing, in any order.     *)
(***************************************************************************)
Half == [num |-> 1, den |-> 2]

One == [num |-> 1, den |-> 1]

\* The thresholds a caller passes: none, a half, one.
Thresholds == {Zero, Half, One}

CombineDeltas ==
    {DeltaRaw(Fin(-8), Fin(1)), DeltaRaw(Fin(-6), Fin(1)), DeltaRaw(Fin(5), Fin(2)),
     DeltaRaw(Fin(5), Fin(0)), DeltaRaw(NaN, Fin(2)), DeltaRaw(NegInf, Fin(1)),
     DeltaRaw(PosInf, Fin(2))}

CombineValues ==
    {NewValue(Null, Fin(0), dd, TRUE) : dd \in DeltaLists(CombineDeltas, MaxDeltas)}

\* combine_dirac_deltas(relative_mean_threshold, relative_range_threshold).
Combine ==
    /\ ~isnull
    /\ \E rmt \in Thresholds, rrt \in Thresholds :
       \E r \in {combine_dirac_deltas(dv, rmt, rrt)} :
          /\ StepWith("combine_dirac_deltas", <<rmt, rrt>>)
          /\ dv' = r.d
          /\ warns' = r.warns
          /\ threw' = r.threw
          /\ UNCHANGED <<isnull, wire, origin, pdp, ret>>

InitCombine == InitValue(CombineValues)

\* A read of the finite_dirac_deltas property: it sorts the value and returns
\* the list.
FiniteDiracDeltas ==
    \E r \in {finite_dirac_deltas(dv)} :
        Query("finite_dirac_deltas", [d |-> r.d, val |-> [k |-> "deltas", v |-> r.val]])

NextCombine == Sort \/ DropZeroMass \/ Cure \/ Combine \/ FiniteDiracDeltas

SpecCombine == InitCombine /\ [][NextCombine]_vars

\* The value d holds exactly two deltas, both at finite positions.
TwoFiniteDeltas(d) ==
    /\ Len(d.dirac_deltas) = 2
    /\ \A i \in 1..2 : PosClass(d.dirac_deltas[i]) = "finite"

\* The two deltas of d merged: mass the sum, position the mass-weighted mean.
MergedPair(d) ==
    LET a == d.dirac_deltas[1]
        b == d.dirac_deltas[2]
    IN  [position |-> FDiv(FAdd(FMul(a.position, a.mass), FMul(b.position, b.mass)),
                           FAdd(a.mass, b.mass)),
         mass |-> FAdd(a.mass, b.mass)]

\* The distance of the two deltas of d.
PairDistance(d) == FAbs(FSub(d.dirac_deltas[1].position, d.dirac_deltas[2].position))

\* max(|finite_mean| * rmt, (max_finite_pos - min_finite_pos) * rrt) for the
\* two deltas of d.
AbsoluteMeanThreshold(d, rmt, rrt) ==
    FMax(Scaled(FAbs(MergedPair(d).position), rmt), Scaled(PairDistance(d), rrt))

\* C21: combine_dirac_deltas with both thresholds positive, on a value of
\* exactly two finite deltas, merges them into one delta (mass the sum,
\* position the mass-weighted mean) if and only if their distance is at most
\* max(|finite_mean| * rmt, range * rrt), also when the finite mean is negative.
C21_CombineUsesAbsoluteMeanThreshold ==
    (/\ Last = "combine_dirac_deltas"
     /\ args[1].num > 0 /\ args[2].num > 0
     /\ TwoFiniteDeltas(dv0))
        => LET close == FLe(PairDistance(dv0),
                            AbsoluteMeanThreshold(dv0, args[1], args[2]))
               finite == SelectDeltas(dv.dirac_deltas, "finite")
           IN  /\ ~threw
               /\ close => /\ Len(finite) = 1
                           /\ finite[1].position = MergedPair(dv0).position
                           /\ finite[1].mass = MergedPair(dv0).mass
               /\ ~close => Len(finite) = 2

\* The deltas of d at finite positions.
FiniteDeltas(d) == SelectDeltas(d.dirac_deltas, "finite")

\* floor(log2(n)) for n >= 1.
Log2Floor(n) == CHOOSE k \in 0..30 : 2 ^ k <= n /\ n < 2 ^ (k + 1)

\* 2 * 2^floor(log2(UR_order)) for the value d.
FullResolution(d) == 2 * 2 ^ Log2Floor(UR_order(d))

\* The effective resolution of a plot of d: requested is 0 when none is asked.
EffectiveResolution(d, requested) ==
    IF requested = 0 \/ FullResolution(d) < requested THEN FullResolution(d)
    ELSE requested

\* A PlotData was built on a value that, normalised, has two finite deltas
\* or more.
PlotBuilt == Last = "PlotData" /\ ret.k = "plot" /\ Len(FiniteDeltas(dv)) >= 2

\* C22: a PlotData built on a value with two finite deltas or more has
\* plotting_resolution 2 * 2^floor(log2(UR_order)) when none was requested
\* and the smaller of that and the requested one otherwise, plotting_ttr_order
\* floor(log2(plotting_resolution)) - 1, plotting_resolution + 1 positions
\* and plotting_resolution masses.
C22_ResolutionClampedAndArraysSized ==
    PlotBuilt =>
        LET effective == EffectiveResolution(dv, args[1])
        IN  /\ ret.v.plotting_resolution = Fin(effective)
            /\ ret.v.plotting_ttr_order = Fin(Log2Floor(effective) - 1)
            /\ ALen(ret.v.positions) = effective + 1
            /\ ALen(ret.v.masses) = effective

\* A plot whose requested resolution was clamped.
C22_Witness ==
    /\ PlotBuilt
    /\ args[1] > FullResolution(dv)
    /\ ret.v.plotting_resolution = Fin(4)
    /\ ALen(ret.v.positions) = 5

\* The finite positions at which the value d has a delta of positive mass.
PositiveFinitePositions(d) ==
    {d.dirac_deltas[i].position :
        i \in {j \in 1..Len(d.dirac_deltas) :
                  /\ PosClass(d.dirac_deltas[j]) = "finite"
                  /\ Positive(d.dirac_deltas[j].mass)}}

\* PlotData was called on a value with positive mass at two finite positions
\* or more.
PlotAsked == Last = "PlotData" /\ Cardinality(PositiveFinitePositions(dv0)) >= 2

\* The construction raised the validation error.
ValidationRaised == ret.k = "error" /\ ret.v = "EvalError"

\* C23: on a value with two finite deltas or more, constructing a PlotData
\* with a requested resolution r >= 1 raises the validation error exactly
\* when min(r, 2 * 2^floor(log2(UR_order))) is no power of two, and with no
\* requested resolution it never raises it.
C23_ValidationErrorIffNotPowerOfTwo ==
    PlotAsked =>
        (ValidationRaised <=>
            /\ args[1] >= 1
            /\ \A k \in 0..30 : EffectiveResolution(dv, args[1]) # 2 ^ k)

(***************************************************************************)
(* struct.ts on format strings.  A format string is a sequence of          *)
(* one-character strings; matchAll yields its groups as the pattern finds *)
(* them: any number of endian markers, any number of digits, one type.     *)
(***************************************************************************)
endiannessChars == {"@", "=", "<", ">", "!"}

bufferTypeChars == {"c", "b", "B", "h", "H", "i", "I", "l", "L", "q", "Q", "f", "d"}

\* The index after the longest run of characters of set that starts at index
\* i of s: a greedy character class.
RECURSIVE RunEnd(_, _, _)
RunEnd(s, i, set) ==
    IF i <= Len(s) /\ s[i] \in set THEN RunEnd(s, i + 1, set) ELSE i

\* The characters of chars as one string.
RECURSIVE Join(_)
Join(chars) == IF Len(chars) = 0 THEN "" ELSE Head(chars) \o Join(Tail(chars))

\* The matches of the pattern in format from index i on.  A match starts at
\* the leftmost index where the run of endian markers and the run of digits
\* are followed by a type character; giving back markers or digits never
\* helps, since the character after a shorter run is a marker or a digit.
RECURSIVE matchFrom(_, _)
matchFrom(format, i) ==
    IF i > Len(format) THEN <<>>
    ELSE LET c == RunEnd(format, i, endiannessChars)
             t == RunEnd(format, c, {DigitChars[k] : k \in 1..10})
         IN  IF t <= Len(format) /\ format[t] \in bufferTypeChars
             THEN <<Group(Join(SubSeq(format, i, c - 1)),
                          IF t > c THEN DigitsValue(SubSeq(format, c, t - 1)) ELSE 1,
                          format[t])>>
                  \o matchFrom(format, t + 1)
             ELSE matchFrom(format, i + 1)

\* [...format.matchAll(pattern)]
matchAll(format) == matchFrom(format, 1)

MaxFormatLen == 3

FormatChars == {"<", ">", "2", "B", "I"}

StructFormats == UNION {[1..n -> FormatChars] : n \in 0..MaxFormatLen}

\* The buffers handed to unpack: every buffer of up to 2 bytes, and buffers
\* of one and two 32-bit values with and without a byte too many.
StructBuffers ==
    UNION {[1..n -> {0, 1}] : n \in 0..2}
    \cup {<<1, 0, 0, 0>>, <<0, 0, 1, 0, 0>>, <<1, 0, 0, 0, 0, 0>>,
          <<1, 0, 0, 0, 0, 0, 0, 2>>, <<1, 0, 0, 0, 0, 0, 0, 2, 0>>}

\* The value lists handed to pack.
StructArrays == {<<>>, <<Fin(1)>>, <<Fin(258), Fin(1)>>, <<Null, Fin(2), Fin(1)>>}

StructResult(r) == IF r.isnull THEN Null ELSE [k |-> "list", v |-> r.val]

\* A caller holds a byte buffer.
InitStruct ==
    /\ wire \in {[t |-> "buffer", d |-> b] : b \in StructBuffers}
    /\ dv = BlankValue
    /\ made = BlankValue
    /\ isnull = TRUE
    /\ origin = NoFrame
    /\ InitCommon

\* unpack(format, buffer) on the buffer at hand: the initial one with any
\* format, or the one pack returned with the format it was packed with.
Unpack ==
    /\ Len(hist) < 2
    /\ \E format \in (IF hist = <<>> THEN StructFormats ELSE {args[1]}) :
          \E r \in {unpackGroups(matchAll(format), wire.d)} :
              /\ StepWith("unpack", <<format>>)
              /\ ret' = StructResult(r)
              /\ warns' = r.warns
              /\ threw' = FALSE
              /\ UNCHANGED <<dv, isnull, wire, origin, pdp>>

\* pack(format, arr): the buffer at hand becomes the one pack returns.
Pack ==
    /\ hist = <<>>
    /\ \E format \in StructFormats, arr \in StructArrays :
          \E r \in {packGroups(matchAll(format), arr)} :
              /\ StepWith("pack", <<format, arr>>)
              /\ ret' = StructResult(r)
              /\ wire' = IF r.isnull THEN wire ELSE [t |-> "buffer", d |-> r.val]
              /\ warns' = r.warns
              /\ threw' = FALSE
              /\ UNCHANGED <<dv, isnull, origin, pdp>>

NextStruct == Pack \/ Unpack

SpecStruct == InitStruct /\ [][NextStruct]_vars

\* The bytes the groups ask for: the sum of count * size over the groups.
RECURSIVE RequiredBytes(_)
RequiredBytes(groups) ==
    IF Len(groups) = 0 THEN 0
    ELSE Head(groups).count * bufferTypeSizeDict(Head(groups).type)
         + RequiredBytes(Tail(groups))

\* The values the groups ask for: the sum of count over the groups.
RECURSIVE RequiredValues(_)
RequiredValues(groups) ==
    IF Len(groups) = 0 THEN 0
    ELSE Head(groups).count + RequiredValues(Tail(groups))

Unpacked == Last = "unpack"

\* C24: unpack returns null when the format requires more bytes than the
\* buffer holds and when the buffer holds more bytes than the format
\* requires; it returns a list only when the two are equal, and the list
\* then has one value per group occurrence.
C24_UnpackNullUnlessExactSize ==
    Unpacked =>
        LET groups == matchAll(args[1])
            required == RequiredBytes(groups)
        IN  /\ required > Len(wire.d) => ret.k = "null"
            /\ required < Len(wire.d) => ret.k = "null"
            /\ ret.k # "null" =>
                  /\ required = Len(wire.d)
                  /\ Len(ret.v) = RequiredValues(groups)

\* unpack returned null for a single byte left over after two 32-bit values.
C24_WitnessTrailing ==
    /\ Unpacked
    /\ args[1] = <<"2", "I">>
    /\ Len(wire.d) = 9
    /\ ret.k = "null"

\* The bytes of the values arr[arrIndex], ... for the items, each value little
\* end first when its group's endian marker is "<" and big end first
\* otherwise.
RECURSIVE BytesByMarker(_, _, _)
BytesByMarker(items, arr, arrIndex) ==
    IF Len(items) = 0 THEN <<>>
    ELSE LET raw == IF arrIndex <= Len(arr) THEN arr[arrIndex] ELSE Undefined
             bytes == SetBytes(Head(items).type, IF raw.k = "null" THEN Fin(0) ELSE raw)
         IN  (IF Head(items).endian = "<" THEN Reverse(bytes) ELSE bytes)
             \o BytesByMarker(Tail(items), arr, arrIndex + 1)

\* The values of the items read from buffer after bufferIndex, each little end
\* first when its group's endian marker is "<" and big end first otherwise.
RECURSIVE ValuesByMarker(_, _, _)
ValuesByMarker(items, buffer, bufferIndex) ==
    IF Len(items) = 0 THEN <<>>
    ELSE LET size == bufferTypeSizeDict(Head(items).type)
             bytes == SubSeq(buffer, bufferIndex + 1, bufferIndex + size)
         IN  <<GetValue(Head(items).type,
                        IF Head(items).endian = "<" THEN Reverse(bytes) ELSE bytes)>>
             \o ValuesByMarker(Tail(items), buffer, bufferIndex + size)

\* C25: pack writes and unpack reads each value in the byte order of its own
\* group: little end first only when the group's endian marker is "<", big
\* end first for every other marker and for no marker.
C25_ByteOrderPerGroupFromTable ==
    /\ (Last = "pack" /\ ret.k = "list") =>
           ret.v = BytesByMarker(ExpandGroups(matchAll(args[1])), args[2], 1)
    /\ (Last = "unpack" /\ ret.k = "list") =>
           ret.v = ValuesByMarker(ExpandGroups(matchAll(args[1])), wire.d, 0)

\* Two deltas at the same position: the same finite position, or both at NaN,
\* both at -Infinity or both at +Infinity.
SamePosition(a, b) ==
    /\ PosClass(a) = PosClass(b)
    /\ PosClass(a) = "finite" => FEq(a.position, b.position)

\* C26: after any calls of sort, drop_zero_mass_positions, cure and
\* combine_dirac_deltas, a cached flag that reads true is true of the deltas:
\* has_no_zero_mass of no delta of mass 0, is_sorted of the finite deltas
\* ascending, is_cured of no two deltas at one position.
C26_CachedFlagsAreTrue ==
    LET dd == dv.dirac_deltas
        finite == SelectDeltas(dd, "finite")
    IN  /\ dv.has_no_zero_mass = "true" =>
               \A i \in 1..Len(dd) : ~FEq(dd[i].mass, Fin(0))
        /\ dv.is_sorted = "true" =>
               \A i \in 1..(Len(finite) - 1) :
                   ~FGt(finite[i].position, finite[i + 1].position)
        /\ dv.is_cured = "true" =>
               \A i, j \in 1..Len(dd) : i # j => ~SamePosition(dd[i], dd[j])

\* C30: after any calls of sort, drop_zero_mass_positions, cure and
\* combine_dirac_deltas, finite_dirac_deltas returns exactly the deltas of the
\* value that have a finite position, in the order of the value.
C30_FiniteDiracDeltasAreTheFiniteOnes ==
    Last = "finite_dirac_deltas" => ret.v = SelectDeltas(dv.dirac_deltas, "finite")

\* Twice the first moment of bin j of the histogram h: its probability times
\* the sum of its two boundaries.
TwiceBinMoment(h, j) ==
    RMul(RMul(h.bin_widths[j], h.bin_heights[j]),
         RAdd(h.boundary_positions[j], h.boundary_positions[j + 1]))

LeftQuadratic(h) ==
    LET p0 == At(determine_boundary_positions(h.deltas, h.exponent,
                                              h.use_ttr_binning).probabilities, 1)
        w1 == h.bin_widths[1]
        w2 == h.bin_widths[2]
        d2 == h.bin_heights[2]
        a == RSub(RMul(d2, w1), p0)
        b == RSub(RMul(a, w1), RMul(p0, w2))
    IN  [a |-> a, b |-> b, c |-> RMul(RMul(p0, w1), RAdd(w1, w2))]

\* The quadratic q has real roots, one of them positive: with roots of
\* product c / a and sum -b / a, the product is negative, or it is positive
\* or zero and the sum is positive.
HasPositiveRoot(q) ==
    /\ ~REq(q.a, R0)
    /\ RGe(RSub(RMul(q.b, q.b), RMul(RMul(Rat(4, 1), q.a), q.c)), R0)
    /\ \/ RLt(RDiv(q.c, q.a), R0)
       \/ RGe(RDiv(q.c, q.a), R0) /\ RGt(RDiv(RNeg(q.b), q.a), R0)

\* q.a * w^2 + q.b * w + q.c
QuadraticAt(q, w) == RAdd(RAdd(RMul(q.a, RMul(w, w)), RMul(q.b, w)), q.c)

\* A histogram of six deltas or more whose left quadratic has a positive root.
LeftRootExists ==
    /\ ret.k = "binning"
    /\ Len(ret.v.deltas) >= 6
    /\ HasPositiveRoot(LeftQuadratic(ret.v))

\* C28: with six deltas or more and a positive root of the quadratic, the
\* left edge lies at the distance w0 of a root from the outermost delta: the
\* width of the outermost bin satisfies a * w0^2 + b * w0 + c = 0.
C28_EdgeAtPositiveRoot ==
    LeftRootExists => REq(QuadraticAt(LeftQuadratic(ret.v), ret.v.bin_widths[0]), R0)

\* The recursion of _bin_pdf_to_ttr did not end: the call stack ran out.
RecursionUnbounded == ret.k = "error" /\ ret.v = "RangeError"

\* C29: constructing a PlotData of a value with two finite deltas or more
\* ends for every requested resolution the constructor accepts, 1 and 2
\* included: the recursion of _bin_pdf_to_ttr reaches order 0.
C29_ConstructionTerminates == PlotAsked => ~RecursionUnbounded

=============================================================================
